---------------------------- MODULE Spec2Model ----------------------------
(***************************************************************************)
(* The image-to-ASCII conversion engine of ascii-converter-next.           *)
(*                                                                         *)
(* The repository holds two copies of the engine:                          *)
(*   "public"   src/public/conv2ascii.js  (served as /conv2ascii.js)       *)
(*   "part_008" src/unnamed/part_008      (the second conv2ascii variant)  *)
(* Both are modelled; the variable `variant` says which one is running.    *)
(*                                                                         *)
(* Numbers.  JavaScript numbers are IEEE doubles.  The channel arithmetic  *)
(* is modelled in decimal fixed point: a value v is held as the integer    *)
(* v * Scale, every product and quotient is rounded to the nearest         *)
(* multiple of 1/Scale (as a double rounds to its nearest representable    *)
(* value, at a coarser grain).  Pixel bytes, grid sizes and ramp indices   *)
(* are plain integers and are computed exactly.                            *)
(***************************************************************************)
EXTENDS Integers, Sequences, FiniteSets, TLC

VARIABLES
    variant,          \* which copy of the engine runs
    pc,               \* position inside the running function
    options,          \* the caller's options object (convertToAscii argument)
    options0,         \* the caller's options object as it was when the call was made
    confirmAnswer,    \* what confirm() returned: "none" (not asked), "ok", "cancel"
    settings,         \* { ...defaults, ...options }
    img,              \* the decoded source image
    effectiveWidth,
    effectiveHeight,
    pixels,           \* imageData.data (flat RGBA bytes), mutated in place
    originalPixels,   \* copy of pixels taken before the adjustments (public only)
    input,            \* the buffer as it was handed to applyImageAdjustments
    chars,            \* the active glyph ramp
    ascii,            \* the text built so far (sequence of one-character strings)
    colorMap,
    y,                \* row counter of the mapping loop
    i,                \* byte offset of the pixel loop of applyImageAdjustments
    rgb,              \* the local r, g, b of applyImageAdjustments (fixed point)
    result,           \* the value convertToAscii resolves to
    form,             \* the controls getSettingsFromUI reads
    hslTriple,        \* the value rgbToHsl returned (h, s, l)
    \* -- src/app/api/rate-limit/route.ts --
    file,             \* rate-limits.json: stored key -> [ip, count, lastReset]
    today,            \* the UTC date of the server clock, counted in days
    response,         \* the last response of the rate-limit route
    fileBefore,       \* (history) the file as the last request found it
    requestsToday,    \* (history) requests answered per ip on the date `today`
    allowedToday,     \* (history) of those, the ones answered allowed = true
    faults,           \* (history) the reads and writes of the file that failed
    wrote,            \* (history) the last request called writeFileSync
    \* -- ImageGenerator: src/unnamed/part_003, src/unnamed/part_002 --
    generator,        \* which copy of the component is mounted
    prompt,           \* useState: the description typed
    geminiApiKey,     \* useState: the key typed
    selectedModel,    \* useState: the model chosen
    generatingGemini, \* useState
    generatingGetImg, \* useState
    generatorError,   \* useState error
    pendingChecks,    \* fetch('/api/rate-limit') calls not yet answered
    pendingGemini,    \* fetch('/api/generate-image/gemini') calls not yet answered
    pendingGetImg,    \* fetch('/api/generate-image/getimg') calls not yet answered
    clicks,           \* (history) clicks on the two generate buttons
    \* -- AsciiConverter: src/unnamed/part_000, part_001, part_002 --
    component,        \* which copy of the component is mounted
    renders,          \* the component function returns (FALSE: it throws)
    engineReady,      \* window.asciiConverter is defined
    loading,          \* useState
    currentImage,     \* useState: 0 is null, n the n-th image loaded
    running,          \* the async calls in flight, each at its await
    now,              \* the clock, in ms
    timers,           \* the timeouts set and not yet fired or cleared
    lastEvent,        \* (history) time of the last input/change event
    events,           \* (history) input/change events on the controls
    debounced,        \* (history) conversions started by a timeout
    lastStart,        \* (history) the last of them: when, on which image
    imageUrls,        \* (history) values the imageUrl prop has taken
    \* -- generate-image routes: src/unnamed/part_005, src/unnamed/part_006 --
    route,            \* the route of the request being handled, or of the last one
    routePc,          \* "idle", or "fetch": the handler awaits the upstream fetch
    body,             \* what request.json() gives
    keyConfigured,    \* process.env.GETIMG_API_KEY is set
    fetched,          \* (history) the handler has called the upstream fetch
    upstreamAnswer,   \* how that fetch settled
    routeResponse,    \* the response of the route
    served            \* (history) requests answered

vars == <<variant, pc, options, options0, confirmAnswer, settings, img,
          effectiveWidth, effectiveHeight, pixels, originalPixels, input,
          chars, ascii, colorMap, y, i, rgb, result, form, hslTriple,
          file, today, response, fileBefore, requestsToday, allowedToday,
          faults, wrote,
          generator, prompt, geminiApiKey, selectedModel, generatingGemini,
          generatingGetImg, generatorError, pendingChecks, pendingGemini,
          pendingGetImg, clicks,
          component, renders, engineReady, loading, currentImage, running, now,
          timers, lastEvent, events, debounced, lastStart, imageUrls,
          route, routePc, body, keyConfigured, fetched, upstreamAnswer,
          routeResponse, served>>

\* The variables of the engine, and those of the application around it.
engineVars == <<variant, pc, options, options0, confirmAnswer, settings, img,
                effectiveWidth, effectiveHeight, pixels, originalPixels, input,
                chars, ascii, colorMap, y, i, rgb, result, form, hslTriple>>

rateVars == <<file, today, response, fileBefore, requestsToday, allowedToday,
              faults, wrote>>

generatorVars == <<generator, prompt, geminiApiKey, selectedModel,
                   generatingGemini, generatingGetImg, generatorError,
                   pendingChecks, pendingGemini, pendingGetImg, clicks>>

converterVars == <<component, renders, engineReady, loading, currentImage,
                   running, now, timers, lastEvent, events, debounced, lastStart,
                   imageUrls>>

routeVars == <<route, routePc, body, keyConfigured, fetched, upstreamAnswer,
               routeResponse, served>>

appVars == <<rateVars, generatorVars, converterVars, routeVars>>

\* The x-forwarded-for values a request carries; NoHeader: it carries none.
NoHeader == "(none)"
Headers == {NoHeader, "", "203.0.113.7", "__proto__"}

\* request.headers.get('x-forwarded-for') || 'unknown'
ClientIp(header) == IF header = NoHeader \/ header = "" THEN "unknown" ELSE header

Ips == {ClientIp(h) : h \in Headers}

\* The file that does not exist, or holds {}.
EmptyFile == [k \in {} |-> 0]

NoResponse == [ip |-> "", allowed |-> FALSE, remaining |-> 0]

\* The rate-limit route before any request: no file, no response.
RateIdle ==
    /\ file = EmptyFile
    /\ today = 0
    /\ response = NoResponse
    /\ fileBefore = EmptyFile
    /\ requestsToday = [ip \in Ips |-> 0]
    /\ allowedToday = [ip \in Ips |-> 0]
    /\ faults = 0
    /\ wrote = FALSE

\* The ImageGenerator as useState initialises it, nothing typed or clicked.
GeneratorIdle ==
    /\ generator = "part_003"
    /\ prompt = ""
    /\ geminiApiKey = ""
    /\ selectedModel = ""
    /\ generatingGemini = FALSE
    /\ generatingGetImg = FALSE
    /\ generatorError = ""
    /\ pendingChecks = 0
    /\ pendingGemini = 0
    /\ pendingGetImg = 0
    /\ clicks = 0

NoStart == [at |-> 0, image |-> 0, current |-> 0]

\* The AsciiConverter as useState initialises it, before the script loads.
ConverterIdle ==
    /\ component = "part_000"
    /\ renders = TRUE
    /\ engineReady = FALSE
    /\ loading = FALSE
    /\ currentImage = 0
    /\ running = <<>>
    /\ now = 0
    /\ timers = {}
    /\ lastEvent = 0
    /\ events = 0
    /\ debounced = 0
    /\ lastStart = NoStart
    /\ imageUrls = 0

NoBody == [kind |-> "none", prompt |-> FALSE, second |-> FALSE]
NoAnswer == [kind |-> "none", status |-> 0, content |-> "none"]
NoRouteResponse == [status |-> 0, imageData |-> FALSE]

\* The generate-image routes before any request.
RoutesIdle ==
    /\ route = "gemini"
    /\ routePc = "idle"
    /\ body = NoBody
    /\ keyConfigured = TRUE
    /\ fetched = FALSE
    /\ upstreamAnswer = NoAnswer
    /\ routeResponse = NoRouteResponse
    /\ served = 0

AppIdle == RateIdle /\ GeneratorIdle /\ ConverterIdle /\ RoutesIdle

-----------------------------------------------------------------------------
(* Fixed-point arithmetic                                                  *)

Scale == 100 * 100

Abs(a) == IF a < 0 THEN -a ELSE a
Sgn(a) == IF a < 0 THEN -1 ELSE 1
Min2(a, b) == IF a < b THEN a ELSE b
Max2(a, b) == IF a > b THEN a ELSE b
Max3(a, b, c) == Max2(a, Max2(b, c))
Min3(a, b, c) == Min2(a, Min2(b, c))

\* An integer as a fixed-point value.
Fx(n) == n * Scale

\* a * b for two fixed-point values, rounded to nearest; the product is
\* formed piecewise so that no partial product leaves 32 bits.
FxMulAbs(a, b) ==
    LET ah == a \div Scale
        al == a % Scale
        bh == b \div Scale
        bl == b % Scale
    IN  ah * bh * Scale + ah * bl + al * bh + ((al * bl + Scale \div 2) \div Scale)

FxMul(a, b) == Sgn(a) * Sgn(b) * FxMulAbs(Abs(a), Abs(b))

\* n / d for two non-negative integers (or two fixed-point values), as a
\* fixed-point value rounded to nearest, by long division two digits at a time.
RatAbs(n, d) ==
    LET q0 == n \div d
        r0 == n % d
        q1 == (r0 * 100) \div d
        r1 == (r0 * 100) % d
        q2 == (r1 * 100) \div d
        r2 == (r1 * 100) % d
    IN  (q0 * 100 + q1) * 100 + q2 + (IF 2 * r2 >= d THEN 1 ELSE 0)

FxDiv(a, b) == Sgn(a) * Sgn(b) * RatAbs(Abs(a), Abs(b))

\* JavaScript's % on numbers: the remainder takes the sign of the dividend.
FxRem(a, m) == Sgn(a) * (Abs(a) % m)

\* Math.floor and Math.round (round half up) of a fixed-point value.
MathFloor(a) == a \div Scale
MathRound(a) == (a + Scale \div 2) \div Scale

\* Math.round(n / d) for integers n >= 0, d > 0, computed exactly.
RoundRatio(n, d) == (2 * n + d) \div (2 * d)

\* Storing a number into a Uint8ClampedArray: clamp to 0..255 and round to
\* nearest, ties to even.
ToUint8Clamped(a) ==
    LET c == Min2(Fx(255), Max2(0, a))
        f == c \div Scale
        m == c % Scale
    IN  IF 2 * m < Scale THEN f
        ELSE IF 2 * m > Scale THEN f + 1
        ELSE IF f % 2 = 0 THEN f ELSE f + 1


-----------------------------------------------------------------------------
(* Program constants                                                       *)

CHAR_SETS ==
    [standard |-> <<"█", "▓", "▒", "░">>,
     extended |-> <<"@", "%", "#", "*", "+", "=", "-", ":", ".", " ">>,
     blocks   |-> <<"█", "▓", "▒", "░", "▄", "▀", "■", "□", "▪", "▫">>,
     simple   |-> <<"#", ".", " ">>]

defaults ==
    [width |-> 100, height |-> 0,
     brightness |-> 100, contrast |-> 100, saturation |-> 100,
     grayscale |-> 0, invert |-> 0, hue |-> 0, sepia |-> 0,
     colorized |-> FALSE,
     charSet |-> CHAR_SETS.standard, customChars |-> <<>>,
     stretchWidth |-> 100, stretchHeight |-> 100]

HighResThreshold == 500

-----------------------------------------------------------------------------
(* Helpers shared by both copies                                           *)

\* truncate(value): Math.min(255, Math.max(0, value))
NoTruncate(v) == v
truncate(v) == Min2(Fx(255), Max2(0, v))

Map3(F(_), c) == <<F(c[1]), F(c[2]), F(c[3])>>

\* F(e), with e evaluated once and bound to a value (a JavaScript `const`).
With(e, F(_)) == CHOOSE r \in { F(x) : x \in {e} } : TRUE

\* 0.2989 * r + 0.5870 * g + 0.1140 * b
Gray2989(c) == FxMul(2989, c[1]) + FxMul(5870, c[2]) + FxMul(1140, c[3])

\* v * (1 - factor) + target * factor, truncated: the blend used by the
\* grayscale, invert and sepia steps.
Blend(v, target, factor) ==
    truncate(FxMul(v, Fx(1) - factor) + FxMul(target, factor))

\* the grayscale step (the same text in both copies)
ApplyGrayscale(s, c) ==
    IF s.grayscale > 0
    THEN With(<<Gray2989(c), FxDiv(s.grayscale, 100)>>, LAMBDA gf:
              \* gf is <<gray, factor>>
              Map3(LAMBDA v: Blend(v, gf[1], gf[2]), c))
    ELSE c

\* the invert step (the same text in both copies)
ApplyInvert(s, c) ==
    IF s.invert > 0
    THEN LET factor == FxDiv(s.invert, 100)
         IN  Map3(LAMBDA v: Blend(v, Fx(255) - v, factor), c)
    ELSE c

\* the sepia step (the same text in both copies)
ApplySepia(s, c) ==
    IF s.sepia > 0
    THEN With(<<FxMul(3930, c[1]) + FxMul(7690, c[2]) + FxMul(1890, c[3]),
                FxMul(3490, c[1]) + FxMul(6860, c[2]) + FxMul(1680, c[3]),
                FxMul(2720, c[1]) + FxMul(5340, c[2]) + FxMul(1310, c[3]),
                FxDiv(s.sepia, 100)>>, LAMBDA t:
              \* t is <<sepiaR, sepiaG, sepiaB, factor>>
              <<Blend(c[1], t[1], t[4]), Blend(c[2], t[2], t[4]), Blend(c[3], t[3], t[4])>>)
    ELSE c

\* rgbToHsl after `r /= 255; g /= 255; b /= 255`, up to the final scaling of
\* h, s and l, which differs between the copies: returns
\* <<h in sixths of a turn (0..6), s in 0..1, l in 0..1>>.
HslOfUnit(r, g, b) ==
    LET max == Max3(r, g, b)
        min == Min3(r, g, b)
        l == FxDiv(max + min, Fx(2))
        d == max - min
    IN  IF max = min
        THEN <<0, 0, l>>
        ELSE LET s == IF l > Scale \div 2
                      THEN FxDiv(d, Fx(2) - max - min)
                      ELSE FxDiv(d, max + min)
                 h == IF max = r THEN FxDiv(g - b, d) + (IF g < b THEN Fx(6) ELSE 0)
                      ELSE IF max = g THEN FxDiv(b - r, d) + Fx(2)
                      ELSE FxDiv(r - g, d) + Fx(4)
             IN  <<h, s, l>>

RgbToHslCore(c) ==
    With(Map3(LAMBDA x: FxDiv(x, Fx(255)), c), LAMBDA n: HslOfUnit(n[1], n[2], n[3]))

\* hue2rgb(p, q, t), the closure inside hslToRgb (the same text in both copies)
hue2rgb(p, q, t0) ==
    LET t1 == IF t0 < 0 THEN t0 + Fx(1) ELSE t0
        t == IF t1 > Fx(1) THEN t1 - Fx(1) ELSE t1
    IN  IF t < FxDiv(1, 6) THEN p + FxMul(6 * (q - p), t)
        ELSE IF t < FxDiv(1, 2) THEN q
        ELSE IF t < FxDiv(2, 3) THEN p + 6 * FxMul(q - p, FxDiv(2, 3) - t)
        ELSE p

\* q and p of hslToRgb
HslQ(s, l) == IF l < Scale \div 2 THEN FxMul(l, Fx(1) + s) ELSE l + s - FxMul(l, s)
HslP(s, l) == 2 * l - HslQ(s, l)


-----------------------------------------------------------------------------
(* The colour-space helpers of each copy                                   *)

\* (mutant) the hue left in sixths of a turn, s and l as fractions
rgbToHslUnscaled(v, c) == RgbToHslCore(c)

\* rgbToHsl(r, g, b): public returns h, s, l in 0..1; part_008 returns h in
\* degrees and s, l in percent.
rgbToHsl(v, c) ==
    With(RgbToHslCore(c), LAMBDA k:
        IF v = "public"
        THEN <<FxDiv(k[1], Fx(6)), k[2], k[3]>>
        ELSE <<60 * k[1], 100 * k[2], 100 * k[3]>>)

\* hslToRgb(h, s, l)
\* The three hue2rgb calls of hslToRgb, for q and p already computed.
HueChannels(p, q, tr, tg, tb) == <<hue2rgb(p, q, tr), hue2rgb(p, q, tg), hue2rgb(p, q, tb)>>

\* (mutant) the channels scaled by 256
hslToRgbBy256(v, h, s, l) ==
    IF v = "public"
    THEN IF s = 0
         THEN <<truncate(256 * l), truncate(256 * l), truncate(256 * l)>>
         ELSE With(<<HslP(s, l), HslQ(s, l)>>, LAMBDA pq:
                With(HueChannels(pq[1], pq[2], h + FxDiv(1, 3), h, h - FxDiv(1, 3)),
                     LAMBDA u: Map3(LAMBDA x: truncate(256 * x), u)))
    ELSE With(<<FxDiv(s, Fx(100)), FxDiv(l, Fx(100)), FxDiv(h, Fx(360))>>, LAMBDA n:
           IF n[1] = 0
           THEN LET value == MathRound(256 * n[2])
                IN  <<Fx(value), Fx(value), Fx(value)>>
           ELSE With(<<HslP(n[1], n[2]), HslQ(n[1], n[2])>>, LAMBDA pq:
                  With(HueChannels(pq[1], pq[2],
                                   FxRem(n[3] + FxDiv(1, 3), Fx(1)),
                                   FxRem(n[3], Fx(1)),
                                   FxRem(n[3] - FxDiv(1, 3), Fx(1))),
                       LAMBDA u: Map3(LAMBDA x: Fx(MathRound(256 * x)), u))))

hslToRgb(v, h, s, l) ==
    IF v = "public"
    THEN IF s = 0
         THEN <<truncate(255 * l), truncate(255 * l), truncate(255 * l)>>
         ELSE With(<<HslP(s, l), HslQ(s, l)>>, LAMBDA pq:
                With(HueChannels(pq[1], pq[2], h + FxDiv(1, 3), h, h - FxDiv(1, 3)),
                     LAMBDA u: Map3(LAMBDA x: truncate(255 * x), u)))
    ELSE With(<<FxDiv(s, Fx(100)), FxDiv(l, Fx(100)), FxDiv(h, Fx(360))>>, LAMBDA n:
           \* n is <<s, l, h / 360>> after `s /= 100; l /= 100`
           IF n[1] = 0
           THEN LET value == MathRound(255 * n[2])
                IN  <<Fx(value), Fx(value), Fx(value)>>
           ELSE With(<<HslP(n[1], n[2]), HslQ(n[1], n[2])>>, LAMBDA pq:
                  With(HueChannels(pq[1], pq[2],
                                   FxRem(n[3] + FxDiv(1, 3), Fx(1)),
                                   FxRem(n[3], Fx(1)),
                                   FxRem(n[3] - FxDiv(1, 3), Fx(1))),
                       LAMBDA u: Map3(LAMBDA x: Fx(MathRound(255 * x)), u))))

-----------------------------------------------------------------------------
(* The steps of applyImageAdjustments; c is <<r, g, b>>, s the settings     *)

\* public: (259 * (contrast / 100 + 255)) / (255 * (259 - contrast / 100));
\* numerator and denominator are both taken times 100 to stay in integers.
ContrastFactor(s) ==
    FxDiv(259 * (s.contrast + 100 * 255), 255 * (100 * 259 - s.contrast))

\* (mutant) the brightness offset taken from the percentage itself
ApplyBrightnessNoOffset(v, s, c) ==
    Map3(LAMBDA x: truncate(x + s.brightness * 25500), c)

ApplyBrightness(v, s, c) ==
    IF v = "public"
    THEN IF s.brightness # 100
         THEN LET factor == FxDiv(s.brightness, 100)
              IN  Map3(LAMBDA x: truncate(FxMul(x, factor)), c)
         ELSE c
    ELSE \* (settings.brightness - 100) * 2.55, added to each channel
         LET brightness == (s.brightness - 100) * 25500
         IN  Map3(LAMBDA x: truncate(x + brightness), c)

ApplyContrast(v, s, c) ==
    IF v = "public"
    THEN IF s.contrast # 100
         THEN With(ContrastFactor(s), LAMBDA contrastFactor:
                Map3(LAMBDA x: truncate(FxMul(contrastFactor, x - Fx(128)) + Fx(128)), c))
         ELSE c
    ELSE \* ((x / 255 - 0.5) * contrast + 0.5) * 255
         LET contrast == FxDiv(s.contrast, 100)
         IN  Map3(LAMBDA x: truncate(255 * (FxMul(FxDiv(x, Fx(255)) - Scale \div 2, contrast)
                                            + Scale \div 2)), c)

ApplySaturation(v, s, c) ==
    IF v = "public" /\ s.saturation = 100
    THEN c
    ELSE With(<<Gray2989(c), FxDiv(s.saturation, 100)>>, LAMBDA gf:
              \* gf is <<gray, factor>>
              Map3(LAMBDA x: truncate(gf[1] + FxMul(x - gf[1], gf[2])), c))

ApplyHue(v, s, c) ==
    IF v = "public"
    THEN IF s.hue # 0
         THEN With(rgbToHsl(v, c), LAMBDA hsl:
                With(FxRem(hsl[1] + FxDiv(s.hue, 360), Fx(1)), LAMBDA newHue:
                  hslToRgb(v, newHue, hsl[2], hsl[3])))
         ELSE c
    ELSE \* hueRotation = settings.hue * 3.6
         LET hueRotation == s.hue * 36000
         IN  IF hueRotation # 0
             THEN With(rgbToHsl(v, c), LAMBDA hsl:
                    With(FxRem(hsl[1] + hueRotation, Fx(360)), LAMBDA h0:
                      hslToRgb(v, IF h0 < 0 THEN h0 + Fx(360) ELSE h0, hsl[2], hsl[3])))
             ELSE c

\* The order in which the body of the pixel loop applies the steps.
StageOrder(v) ==
    IF v = "public"
    THEN <<"brightness", "contrast", "saturation", "grayscale", "invert", "sepia", "hue">>
    ELSE <<"brightness", "contrast", "saturation", "grayscale", "invert", "hue", "sepia">>

ApplyStage(v, stage, s, c) ==
    CASE stage = "brightness" -> ApplyBrightness(v, s, c)
      [] stage = "contrast"   -> ApplyContrast(v, s, c)
      [] stage = "saturation" -> ApplySaturation(v, s, c)
      [] stage = "grayscale"  -> ApplyGrayscale(s, c)
      [] stage = "invert"     -> ApplyInvert(s, c)
      [] stage = "sepia"      -> ApplySepia(s, c)
      [] stage = "hue"        -> ApplyHue(v, s, c)

\* r, g, b after the first k steps of `order`.
RECURSIVE AfterStagesIn(_, _, _, _, _)
AfterStagesIn(order, v, k, s, c) ==
    IF k = 0 THEN c
    ELSE With(AfterStagesIn(order, v, k - 1, s, c), LAMBDA prev:
              ApplyStage(v, order[k], s, prev))

\* r, g, b after the first k steps of the loop body.
AfterStages(v, k, s, c) == AfterStagesIn(StageOrder(v), v, k, s, c)

\* One iteration of the pixel loop on the bytes <<r, g, b>>: the bytes stored.
AdjustPixel(v, s, bytes) ==
    With(AfterStages(v, 7, s, Map3(Fx, bytes)), LAMBDA c: Map3(ToUint8Clamped, c))

\* The stage after `stage`, "store" after the last one.
NextStage(v, stage) ==
    LET k == CHOOSE n \in 1..7 : StageOrder(v)[n] = stage
    IN  IF k = 7 THEN "store" ELSE StageOrder(v)[k + 1]


-----------------------------------------------------------------------------
(* Inputs of the model                                                     *)

Variants == {"public", "part_008"}

\* RGBA colours the source images and test buffers are made of.
Palette ==
    << <<255, 255, 255, 255>>, <<0, 0, 0, 255>>,     <<0, 255, 0, 128>>,
       <<64, 64, 60, 255>>,    <<250, 250, 240, 0>>, <<200, 100, 50, 77>>,
       <<10, 100, 250, 255>>,  <<128, 128, 128, 1>>, <<255, 0, 0, 200>> >>

MaxSide == 2      \* source images are up to MaxSide x MaxSide pixels
MaxSeed == 2      \* source images start at palette entries 1..MaxSeed+1
MaxWidth == 3     \* requested widths of the small conversions

Flatten4(cells) == [k \in 1..(4 * Len(cells)) |-> cells[((k - 1) \div 4) + 1][((k - 1) % 4) + 1]]

\* A decoded nw x nh image whose pixels walk through the palette from `seed`.
Image(nw, nh, seed, kind) ==
    [naturalWidth |-> nw, naturalHeight |-> nh, kind |-> kind,
     data |-> Flatten4([k \in 1..(nw * nh) |-> Palette[((seed + k - 1) % Len(Palette)) + 1]])]

Merge(d, o) == [f \in DOMAIN d \cup DOMAIN o |-> IF f \in DOMAIN o THEN o[f] ELSE d[f]]

NoOptions == [f \in {} |-> 0]

\* What the caller may ask for besides the size.
StyleOptions ==
    { NoOptions,
      [charSet |-> CHAR_SETS.simple],
      [charSet |-> CHAR_SETS.extended, colorized |-> TRUE],
      [customChars |-> <<"A", "B">>, charSet |-> CHAR_SETS.blocks],
      [customChars |-> <<"A", "B">>, charSetType |-> "blocks"],
      [customChars |-> <<"X">>, colorized |-> TRUE],
      [charSetType |-> "simple", charSet |-> CHAR_SETS.extended],
      [charSet |-> <<>>],
      [charSet |-> <<"@">>],
      [brightness |-> 150, contrast |-> 50, saturation |-> 50, grayscale |-> 30,
       invert |-> 20, hue |-> 90, sepia |-> 40, colorized |-> TRUE],
      [invert |-> 100, charSet |-> CHAR_SETS.simple],
      [hue |-> 120, sepia |-> 50, colorized |-> TRUE, charSet |-> CHAR_SETS.blocks] }

SmallSizes ==
    { [width |-> w] : w \in 1..MaxWidth }
    \cup { [width |-> 2, height |-> 1, stretchHeight |-> 150],
           [width |-> 2, stretchWidth |-> 125, stretchHeight |-> 50],
           [width |-> 1, height |-> 2, stretchWidth |-> 200],
           [width |-> 1, height |-> 1, stretchWidth |-> 40] }

\* Conversions at the default width and around the high-resolution threshold.
LargeSizes ==
    { NoOptions,
      [width |-> 100, stretchWidth |-> 150],
      [width |-> HighResThreshold, height |-> 1],
      [width |-> HighResThreshold + 1, height |-> 1],
      [width |-> HighResThreshold + 1, height |-> 1, _highResolutionConfirmed |-> TRUE],
      [width |-> HighResThreshold + 100, height |-> 1, stretchWidth |-> 50] }

SmallImages ==
    { Image(nw, nh, seed, kind) : nw \in 1..MaxSide, nh \in 1..MaxSide,
                                  seed \in 0..MaxSeed, kind \in {"element"} }
    \cup { Image(2, 1, 0, "url") }

LargeImages == { Image(1, 2, 0, "element"), Image(2, 1, 0, "element") }

\* <<imgSource, options>> of the calls of convertToAscii the model makes.
Calls ==
    { <<im, Merge(sz, st)>> : im \in SmallImages, sz \in SmallSizes, st \in StyleOptions }
    \cup { <<im, sz>> : im \in LargeImages, sz \in LargeSizes }


-----------------------------------------------------------------------------
(* convertToAscii: pure parts                                              *)

Has(o, f) == f \in DOMAIN o

\* options.width > 500 && !options._highResolutionConfirmed
NeedsConfirm(o) ==
    /\ Has(o, "width")
    /\ o.width > HighResThreshold
    /\ ~(Has(o, "_highResolutionConfirmed") /\ o._highResolutionConfirmed)

\* Math.round(settings.width * ((img.naturalHeight / img.naturalWidth) * 0.5))
AutoHeight(width, im) == RoundRatio(width * im.naturalHeight, 2 * im.naturalWidth)

\* Math.round(size * (stretch / 100))
\* (mutant) the stretched size truncated instead of rounded
StretchedTruncated(size, stretch) == (size * stretch) \div 100

Stretched(size, stretch) == RoundRatio(size * stretch, 100)

\* ctx.drawImage(img, 0, 0, w, h) followed by getImageData: the source image
\* scaled to w x h, each cell taking the source pixel it falls on.
Resample(im, w, h) ==
    [j \in 1..(4 * w * h) |->
        LET cell == (j - 1) \div 4
            sx == ((cell % w) * im.naturalWidth) \div w
            sy == ((cell \div w) * im.naturalHeight) \div h
        IN  im.data[4 * (sy * im.naturalWidth + sx) + ((j - 1) % 4) + 1]]

\* applyImageAdjustments(pixels, settings) as a whole: every pixel's r, g, b
\* replaced, the alpha bytes left alone.
\* (mutant) the adjustments skipped for a colorized conversion
AdjustBufferUnlessColorized(v, s, px) ==
    LET adj == [k \in 1..(Len(px) \div 4) |->
                   AdjustPixel(v, s, <<px[4 * k - 3], px[4 * k - 2], px[4 * k - 1]>>)]
    IN  [j \in 1..Len(px) |->
            IF (j - 1) % 4 = 3 \/ (Has(s, "colorized") /\ s.colorized) THEN px[j]
            ELSE adj[((j - 1) \div 4) + 1][((j - 1) % 4) + 1]]

AdjustBuffer(v, s, px) ==
    LET adj == [k \in 1..(Len(px) \div 4) |->
                   AdjustPixel(v, s, <<px[4 * k - 3], px[4 * k - 2], px[4 * k - 1]>>)]
    IN  [j \in 1..Len(px) |->
            IF (j - 1) % 4 = 3 THEN px[j] ELSE adj[((j - 1) \div 4) + 1][((j - 1) % 4) + 1]]

\* The ramp the mapping loop uses.
SelectChars(v, s) ==
    IF v = "public"
    THEN IF Len(s.customChars) > 0 THEN s.customChars ELSE s.charSet
    ELSE IF Len(s.customChars) > 0 THEN s.customChars
         ELSE IF Has(s, "charSetType") /\ s.charSetType # ""
              THEN IF s.charSetType \in DOMAIN CHAR_SETS
                   THEN CHAR_SETS[s.charSetType] ELSE CHAR_SETS.standard
              ELSE IF Len(s.charSet) > 0 THEN s.charSet ELSE CHAR_SETS.standard

\* public: Math.round(0.299 * r + 0.587 * g + 0.114 * b), on the exact sum
WeightedBrightness(r, g, b) == RoundRatio(299 * r + 587 * g + 114 * b, 1000)

\* (mutant) the index scaled by 255 and not limited to the ramp
CharIndexUnclamped(v, n, r, g, b) == ((r + g + b) * n) \div (3 * 255)

\* (mutant) the ramp read from its light end
CharIndexReversed(v, n, r, g, b) ==
    n - 1 - Min2(n - 1, ((r + g + b) * n) \div (3 * 256))

\* The (0-based) index into a ramp of n characters for an adjusted pixel.
\*   public:   Math.min(n - 1, Math.floor(n * brightness / 256))
\*   part_008: brightness = (r + g + b) / 3;
\*             Math.min(n - 1, Math.floor(brightness / 256 * n))
CharIndex(v, n, r, g, b) ==
    IF v = "public"
    THEN Min2(n - 1, (n * WeightedBrightness(r, g, b)) \div 256)
    ELSE Min2(n - 1, ((r + g + b) * n) \div (3 * 256))

\* What `ascii += chars[k]` appends: the character, or the text of undefined.
UndefinedText == <<"u", "n", "d", "e", "f", "i", "n", "e", "d">>
Glyph(ramp, k) == IF k >= 0 /\ k < Len(ramp) THEN <<ramp[k + 1]>> ELSE UndefinedText

RECURSIVE Concat(_)
Concat(ss) == IF Len(ss) = 0 THEN <<>> ELSE Head(ss) \o Concat(Tail(ss))

\* The glyphs of row yy of the grid (without the newline).
RowGlyphs(v, ramp, px, w, yy) ==
    LET cellGlyph(x) ==
            LET idx == (yy * w + x) * 4
            IN  Glyph(ramp, CharIndex(v, Len(ramp), px[idx + 1], px[idx + 2], px[idx + 3]))
    IN  IF Len(ramp) > 0
        THEN [x \in 1..w |-> cellGlyph(x - 1)[1]]
        ELSE Concat([x \in 1..w |-> cellGlyph(x - 1)])

\* The r, g, b of row yy of a buffer, as the colour records of colorMap.
RowColors(px, w, yy) ==
    [x \in 1..w |-> LET idx == (yy * w + x - 1) * 4
                    IN  <<px[idx + 1], px[idx + 2], px[idx + 3]>>]

Null == <<>>

\* ascii.split('\n')
RECURSIVE SplitFrom(_, _)
SplitFrom(s, start) ==
    IF \E k \in start..Len(s) : s[k] = "\n"
    THEN LET k == CHOOSE n \in start..Len(s) :
                      s[n] = "\n" /\ \A m \in start..(n - 1) : s[m] # "\n"
         IN  <<SubSeq(s, start, k - 1)>> \o SplitFrom(s, k + 1)
    ELSE <<SubSeq(s, start, Len(s))>>

Split(s) == SplitFrom(s, 1)

Black == <<0, 0, 0>>

\* The fillText calls of createAsciiImage: what is drawn where, in what colour.
Fills(v, lines, s, cmap) ==
    LET mono(l) == { [row |-> l - 1, col |-> 0, text |-> lines[l], color |-> Black] }
        cell(l, x) == [row |-> l - 1, col |-> x - 1, text |-> <<lines[l][x]>>,
                       color |-> cmap[l][x]]
    IN  IF v = "public"
        THEN IF s.colorized /\ Len(cmap) > 0
             THEN UNION { IF l <= Len(cmap)
                          THEN { cell(l, x) : x \in { n \in 1..Len(lines[l]) :
                                                        /\ n <= Len(cmap[l])
                                                        /\ cmap[l][n] # Null } }
                          ELSE {} :
                          l \in 1..Len(lines) }
             ELSE UNION { mono(l) : l \in 1..Len(lines) }
        ELSE UNION { IF s.colorized /\ l <= Len(cmap)
                     THEN { cell(l, x) : x \in 1..Min2(Len(lines[l]), Len(cmap[l])) }
                     ELSE mono(l) :
                     l \in 1..Len(lines) }

\* createAsciiImage(ascii, _, _, options, colorMap): the canvas it draws,
\* described by its size, font and fillText calls.
createAsciiImage(v, text, s, cmap) ==
    LET lines == Split(text)
    IN  IF v = "public"
        THEN LET asciiWidth == Len(lines[1])
                 asciiHeight == Len(lines)
                 fontSize == Min2(12, (asciiWidth * 12) \div asciiHeight)
             IN  [format |-> "image/webp",
                  columns |-> asciiWidth, rows |-> asciiHeight,
                  fontSize |-> Fx(fontSize),
                  width |-> (asciiWidth * fontSize * 6) \div 10,
                  height |-> asciiHeight * fontSize,
                  fills |-> Fills(v, lines, s, cmap)]
        ELSE [format |-> "image/png",
              columns |-> Len(lines[1]), rows |-> Len(lines),
              fontSize |-> FxDiv(s.height, Len(lines)),
              width |-> s.width * 2,
              height |-> s.height,
              fills |-> Fills(v, lines, s, cmap)]


-----------------------------------------------------------------------------
(* convertToAscii(imgSource, options) as a state machine                   *)

None == "none"

Init ==
    /\ variant \in Variants
    /\ \E call \in Calls : img = call[1] /\ options = call[2]
    /\ options0 = options
    /\ confirmAnswer = None
    /\ pc = "start"
    /\ settings = None
    /\ effectiveWidth = 0
    /\ effectiveHeight = 0
    /\ pixels = <<>>
    /\ originalPixels = <<>>
    /\ input = <<>>
    /\ chars = <<>>
    /\ ascii = <<>>
    /\ colorMap = <<>>
    /\ y = 0
    /\ i = 0
    /\ rgb = <<0, 0, 0>>
    /\ result = None
    /\ form = None
    /\ hslTriple = None
    /\ AppIdle

\* The high-resolution check: confirm() is answered "Cancel".
ConfirmCancel ==
    /\ pc = "start"
    /\ NeedsConfirm(options)
    /\ confirmAnswer' = "cancel"
    /\ options' = [options EXCEPT !.width = Min2(options.width, HighResThreshold)]
    /\ pc' = "merge"
    /\ UNCHANGED <<appVars, form, hslTriple, variant, options0, settings, img, effectiveWidth, effectiveHeight,
                   pixels, originalPixels, input, chars, ascii, colorMap, y, i, rgb, result>>

\* The high-resolution check: confirm() is answered "OK".
ConfirmOk ==
    /\ pc = "start"
    /\ NeedsConfirm(options)
    /\ confirmAnswer' = "ok"
    /\ options' = Merge(options, [_highResolutionConfirmed |-> TRUE])
    /\ pc' = "merge"
    /\ UNCHANGED <<appVars, form, hslTriple, variant, options0, settings, img, effectiveWidth, effectiveHeight,
                   pixels, originalPixels, input, chars, ascii, colorMap, y, i, rgb, result>>

\* The high-resolution check does not apply.
NoConfirm ==
    /\ pc = "start"
    /\ ~NeedsConfirm(options)
    /\ pc' = "merge"
    /\ UNCHANGED <<appVars, form, hslTriple, variant, options, options0, confirmAnswer, settings, img,
                   effectiveWidth, effectiveHeight, pixels, originalPixels, input,
                   chars, ascii, colorMap, y, i, rgb, result>>

\* const settings = { ...defaults, ...options }
MergeDefaults ==
    /\ pc = "merge"
    /\ settings' = Merge(defaults, options)
    /\ pc' = "load"
    /\ UNCHANGED <<appVars, form, hslTriple, variant, options, options0, confirmAnswer, img, effectiveWidth,
                   effectiveHeight, pixels, originalPixels, input, chars, ascii,
                   colorMap, y, i, rgb, result>>

\* imgSource is an image element, or a URL that loads.
LoadImage ==
    /\ pc = "load"
    /\ pc' = "height"
    /\ UNCHANGED <<appVars, form, hslTriple, variant, options, options0, confirmAnswer, settings, img,
                   effectiveWidth, effectiveHeight, pixels, originalPixels, input,
                   chars, ascii, colorMap, y, i, rgb, result>>

\* imgSource is a URL that fails to load: the promise rejects.
LoadImageError ==
    /\ pc = "load"
    /\ img.kind = "url"
    /\ pc' = "rejected"
    /\ UNCHANGED <<appVars, form, hslTriple, variant, options, options0, confirmAnswer, settings, img,
                   effectiveWidth, effectiveHeight, pixels, originalPixels, input,
                   chars, ascii, colorMap, y, i, rgb, result>>

\* if (!settings.height) settings.height = Math.round(settings.width * aspectRatio)
CalcHeight ==
    /\ pc = "height"
    /\ settings' = IF settings.height = 0
                   THEN [settings EXCEPT !.height = AutoHeight(settings.width, img)]
                   ELSE settings
    /\ pc' = "stretch"
    /\ UNCHANGED <<appVars, form, hslTriple, variant, options, options0, confirmAnswer, img, effectiveWidth,
                   effectiveHeight, pixels, originalPixels, input, chars, ascii,
                   colorMap, y, i, rgb, result>>

\* const effectiveWidth = ..., effectiveHeight = ...
ApplyStretch ==
    /\ pc = "stretch"
    /\ effectiveWidth' = Stretched(settings.width, settings.stretchWidth)
    /\ effectiveHeight' = Stretched(settings.height, settings.stretchHeight)
    /\ pc' = "canvas"
    /\ UNCHANGED <<appVars, form, hslTriple, variant, options, options0, confirmAnswer, settings, img, pixels,
                   originalPixels, input, chars, ascii, colorMap, y, i, rgb, result>>

\* The canvas is sized, the image drawn and its pixels read back; public
\* also keeps a copy of them.
DrawImage ==
    /\ pc = "canvas"
    /\ effectiveWidth > 0
    /\ effectiveHeight > 0
    /\ pixels' = Resample(img, effectiveWidth, effectiveHeight)
    /\ originalPixels' = IF variant = "public" THEN pixels' ELSE originalPixels
    /\ input' = pixels'
    /\ pc' = "adjust"
    /\ UNCHANGED <<appVars, form, hslTriple, variant, options, options0, confirmAnswer, settings, img,
                   effectiveWidth, effectiveHeight, chars, ascii, colorMap, y, i, rgb,
                   result>>

\* (mutant) an empty rectangle read back as an empty buffer
GetImageDataEmpty ==
    /\ pc = "canvas"
    /\ (effectiveWidth = 0 \/ effectiveHeight = 0)
    /\ pixels' = <<>>
    /\ pc' = "adjust"
    /\ UNCHANGED <<appVars, form, hslTriple, variant, options, options0, confirmAnswer, settings,
                   img, effectiveWidth, effectiveHeight, originalPixels, input, chars,
                   ascii, colorMap, y, i, rgb, result>>

\* getImageData throws IndexSizeError for an empty rectangle: the promise rejects.
GetImageDataThrows ==
    /\ pc = "canvas"
    /\ (effectiveWidth = 0 \/ effectiveHeight = 0)
    /\ pc' = "rejected"
    /\ UNCHANGED <<appVars, form, hslTriple, variant, options, options0, confirmAnswer, settings, img,
                   effectiveWidth, effectiveHeight, pixels, originalPixels, input,
                   chars, ascii, colorMap, y, i, rgb, result>>

\* applyImageAdjustments(pixels, settings)
ApplyImageAdjustments ==
    /\ pc = "adjust"
    /\ pixels' = AdjustBuffer(variant, settings, pixels)
    /\ pc' = "chars"
    /\ UNCHANGED <<appVars, form, hslTriple, variant, options, options0, confirmAnswer, settings, img,
                   effectiveWidth, effectiveHeight, originalPixels, input, chars, ascii,
                   colorMap, y, i, rgb, result>>

\* The ramp is chosen, ascii and colorMap are set up.
ChooseChars ==
    /\ pc = "chars"
    /\ chars' = SelectChars(variant, settings)
    /\ ascii' = <<>>
    /\ colorMap' = IF variant = "public" /\ settings.colorized
                   THEN [r \in 1..effectiveHeight |-> [x \in 1..effectiveWidth |-> Null]]
                   ELSE <<>>
    /\ y' = 0
    /\ pc' = "map"
    /\ UNCHANGED <<appVars, form, hslTriple, variant, options, options0, confirmAnswer, settings, img,
                   effectiveWidth, effectiveHeight, pixels, originalPixels, input, i,
                   rgb, result>>

\* One pass of the outer loop: row y of the grid.
MapRow ==
    /\ pc = "map"
    /\ y < effectiveHeight
    /\ ascii' = ascii \o RowGlyphs(variant, chars, pixels, effectiveWidth, y) \o <<"\n">>
    /\ colorMap' = IF ~settings.colorized THEN colorMap
                   ELSE IF variant = "public"
                   THEN [colorMap EXCEPT ![y + 1] = RowColors(originalPixels, effectiveWidth, y)]
                   ELSE Append(colorMap, RowColors(pixels, effectiveWidth, y))
    /\ y' = y + 1
    /\ pc' = IF y + 1 < effectiveHeight THEN "map" ELSE "image"
    /\ UNCHANGED <<appVars, form, hslTriple, variant, options, options0, confirmAnswer, settings, img,
                   effectiveWidth, effectiveHeight, pixels, originalPixels, input, chars,
                   i, rgb, result>>

\* const asciiImage = await createAsciiImage(...); return { text, image }
Return ==
    /\ pc = "image"
    /\ result' = [text |-> ascii,
                  image |-> createAsciiImage(variant, ascii, settings, colorMap)]
    /\ pc' = "done"
    /\ UNCHANGED <<appVars, form, hslTriple, variant, options, options0, confirmAnswer, settings, img,
                   effectiveWidth, effectiveHeight, pixels, originalPixels, input, chars,
                   ascii, colorMap, y, i, rgb>>

\* (mutant) the error of createAsciiImage caught and the text returned alone
CreateAsciiImageFailsKeepsText ==
    /\ pc = "image"
    /\ result' = [text |-> ascii]
    /\ pc' = "done"
    /\ UNCHANGED <<appVars, form, hslTriple, variant, options, options0, confirmAnswer, settings,
                   img, effectiveWidth, effectiveHeight, pixels, originalPixels, input,
                   chars, ascii, colorMap, y, i, rgb>>

\* await createAsciiImage(...) rejects (the canvas gives no 2d context, or a
\* call on it throws): convertToAscii rejects with that error.
CreateAsciiImageFails ==
    /\ pc = "image"
    /\ pc' = "rejected"
    /\ UNCHANGED <<appVars, form, hslTriple, variant, options, options0, confirmAnswer, settings, img,
                   effectiveWidth, effectiveHeight, pixels, originalPixels, input, chars,
                   ascii, colorMap, y, i, rgb, result>>

Next ==
    \/ ConfirmCancel
    \/ ConfirmOk
    \/ NoConfirm
    \/ MergeDefaults
    \/ LoadImage
    \/ LoadImageError
    \/ CalcHeight
    \/ ApplyStretch
    \/ DrawImage
    \/ GetImageDataThrows
    \/ ApplyImageAdjustments
    \/ ChooseChars
    \/ MapRow
    \/ Return
    \/ CreateAsciiImageFails

Spec == Init /\ [][Next]_vars


-----------------------------------------------------------------------------
(* applyImageAdjustments(pixels, settings) on its own, one step of the      *)
(* loop body at a time                                                     *)

NumBuffers == 4        \* how many input buffers are tried
PixelsPerBuffer == 2   \* pixels in each of them

Buffer(k) ==
    Flatten4([j \in 1..PixelsPerBuffer |-> Palette[((k + j - 2) % Len(Palette)) + 1]])

Buffers == { Buffer(k) : k \in 1..NumBuffers }

\* Settings inside and at the ends of the documented ranges.
AdjustSettings ==
    [brightness : {0, 100, 200}, contrast : {50, 100, 200}, saturation : {0, 100, 200},
     grayscale : {0, 60}, invert : {0, 100}, hue : {0, 90, 300}, sepia : {0, 80}]

NeutralSettings ==
    [brightness |-> 100, contrast |-> 100, saturation |-> 100,
     grayscale |-> 0, invert |-> 0, hue |-> 0, sepia |-> 0]

InitAdjust ==
    /\ variant \in Variants
    /\ settings \in AdjustSettings
    /\ pixels \in Buffers
    /\ input = pixels
    /\ i = 0
    /\ rgb = <<0, 0, 0>>
    /\ pc = "loop"
    /\ options = NoOptions
    /\ options0 = NoOptions
    /\ confirmAnswer = None
    /\ img = None
    /\ effectiveWidth = 0
    /\ effectiveHeight = 0
    /\ originalPixels = <<>>
    /\ chars = <<>>
    /\ ascii = <<>>
    /\ colorMap = <<>>
    /\ y = 0
    /\ result = None
    /\ form = None
    /\ hslTriple = None
    /\ AppIdle

AdjustFrame ==
    UNCHANGED <<appVars, form, hslTriple, variant, options, options0, confirmAnswer, settings, img, effectiveWidth,
                effectiveHeight, originalPixels, input, chars, ascii, colorMap, y, result>>

\* let r = pixels[i]; let g = pixels[i + 1]; let b = pixels[i + 2]
ReadPixel ==
    /\ pc = "loop"
    /\ i < Len(pixels)
    /\ rgb' = <<Fx(pixels[i + 1]), Fx(pixels[i + 2]), Fx(pixels[i + 3])>>
    /\ pc' = StageOrder(variant)[1]
    /\ UNCHANGED <<pixels, i>>
    /\ AdjustFrame

\* One step of the loop body.
Step(stage) ==
    /\ pc = stage
    /\ rgb' = ApplyStage(variant, stage, settings, rgb)
    /\ pc' = NextStage(variant, stage)
    /\ UNCHANGED <<pixels, i>>
    /\ AdjustFrame

StepBrightness == Step("brightness")
StepContrast == Step("contrast")
StepSaturation == Step("saturation")
StepGrayscale == Step("grayscale")
StepInvert == Step("invert")
StepSepia == Step("sepia")
StepHue == Step("hue")

\* (mutant) the store also writes an opaque alpha byte
StorePixelAlpha ==
    /\ pc = "store"
    /\ pixels' = [pixels EXCEPT ![i + 1] = ToUint8Clamped(rgb[1]),
                                ![i + 2] = ToUint8Clamped(rgb[2]),
                                ![i + 3] = ToUint8Clamped(rgb[3]),
                                ![i + 4] = 255]
    /\ i' = i + 4
    /\ pc' = "loop"
    /\ UNCHANGED rgb
    /\ AdjustFrame

\* pixels[i] = r; pixels[i + 1] = g; pixels[i + 2] = b;  then i += 4
StorePixel ==
    /\ pc = "store"
    /\ pixels' = [pixels EXCEPT ![i + 1] = ToUint8Clamped(rgb[1]),
                                ![i + 2] = ToUint8Clamped(rgb[2]),
                                ![i + 3] = ToUint8Clamped(rgb[3])]
    /\ i' = i + 4
    /\ pc' = "loop"
    /\ UNCHANGED rgb
    /\ AdjustFrame

\* The loop ends and the function returns.
AdjustReturn ==
    /\ pc = "loop"
    /\ i >= Len(pixels)
    /\ pc' = "returned"
    /\ UNCHANGED <<pixels, i, rgb>>
    /\ AdjustFrame

NextAdjust ==
    \/ ReadPixel
    \/ StepBrightness
    \/ StepContrast
    \/ StepSaturation
    \/ StepGrayscale
    \/ StepInvert
    \/ StepSepia
    \/ StepHue
    \/ StorePixel
    \/ AdjustReturn

SpecAdjust == InitAdjust /\ [][NextAdjust]_vars


-----------------------------------------------------------------------------
(* Properties of applyImageAdjustments (checked under SpecAdjust)          *)

IsAlpha(j) == (j - 1) % 4 = 3

\* C1: with every factor at its neutral value (brightness, contrast and
\* saturation 100, grayscale, invert, hue and sepia 0) every R, G and B byte of
\* the buffer stays within 1 of the value it had before the call.
C1_NeutralIdentity ==
    settings = NeutralSettings =>
        \A j \in 1..Len(pixels) : ~IsAlpha(j) => Abs(pixels[j] - input[j]) <= 1

\* The call has returned under neutral settings, in the copy that runs its
\* brightness, contrast and saturation arithmetic unconditionally, on a buffer
\* holding a coloured pixel.
C1_Witness ==
    /\ pc = "returned"
    /\ variant = "part_008"
    /\ settings = NeutralSettings
    /\ \E j \in 1..Len(input) : input[j] \notin {0, 255}

\* C2: the r, g, b held after each step of the loop body, and the bytes in the
\* buffer, lie in 0..255 for every setting tried.
C2_Clamped ==
    /\ \A k \in 1..3 : rgb[k] >= 0 /\ rgb[k] <= Fx(255)
    /\ \A j \in 1..Len(pixels) : pixels[j] \in 0..255

\* A near-white pixel has just gone through the brightness and contrast steps
\* at brightness 200 and contrast 200 and sits at the upper limit.
C2_Witness ==
    /\ pc = "saturation"
    /\ settings.brightness = 200
    /\ settings.contrast = 200
    /\ pixels[i + 1] = 250
    /\ rgb[1] = Fx(255)

\* C3: the alpha byte of every pixel is the same as before the call.
C3_AlphaUntouched ==
    \A j \in 1..Len(pixels) : IsAlpha(j) => pixels[j] = input[j]

\* The call has returned, it changed the buffer, and the buffer holds a pixel
\* that is not opaque.
C3_Witness ==
    /\ pc = "returned"
    /\ pixels # input
    /\ \E j \in 1..Len(pixels) : IsAlpha(j) /\ pixels[j] # 255

\* The order of the steps as the specification fixes it.
SpecOrder ==
    <<"brightness", "contrast", "saturation", "grayscale", "invert", "sepia", "hue">>

\* C4: the steps are applied in the order brightness, contrast, saturation,
\* grayscale, invert, sepia, hue rotation: what is about to be stored for a
\* pixel is what that order yields from the pixel's bytes, and the step that
\* follows sepia is the hue rotation, which is the last one.
C4_FixedOrder ==
    /\ pc = "sepia" => NextStage(variant, pc) = "hue"
    /\ pc = "hue" => NextStage(variant, pc) = "store"
    /\ pc = "store" =>
          rgb = AfterStagesIn(SpecOrder, variant, 7, settings,
                              <<Fx(pixels[i + 1]), Fx(pixels[i + 2]), Fx(pixels[i + 3])>>)

-----------------------------------------------------------------------------
(* Properties of convertToAscii (checked under Spec)                       *)

Mapping == {"map", "image", "done"}
AfterStretch == {"canvas", "adjust", "chars", "map", "image", "done"}
AfterHeight == AfterStretch \cup {"stretch"}

\* The position in `ascii` of column x of row yy, both 0-based, when every
\* cell holds one character.
CellAt(yy, x) == yy * (effectiveWidth + 1) + x + 1

\* C5: for a ramp of n >= 1 characters, the glyph appended for a cell is
\* ramp[min(n - 1, floor(L * n / 256))], L being the weighted luminance
\* 0.299 R + 0.587 G + 0.114 B of the adjusted pixel.
C5_GlyphOfLuminance ==
    (pc \in Mapping /\ Len(chars) >= 1) =>
        \A yy \in 0..(y - 1) : \A x \in 0..(effectiveWidth - 1) :
            LET idx == (yy * effectiveWidth + x) * 4
                n == Len(chars)
                L1000 == 299 * pixels[idx + 1] + 587 * pixels[idx + 2] + 114 * pixels[idx + 3]
            IN  ascii[CellAt(yy, x)] = chars[Min2(n - 1, (L1000 * n) \div (256 * 1000)) + 1]

\* The ramp the specification calls active.
ActiveRamp(s) == IF Len(s.customChars) > 0 THEN s.customChars ELSE s.charSet

\* C6: every character of the text other than the newlines is a member of the
\* active ramp: customChars when it is not empty, the charSet ramp otherwise.
C6_OnlyRampCharacters ==
    pc \in Mapping =>
        \A k \in 1..Len(ascii) :
            ascii[k] = "\n" \/ \E m \in 1..Len(ActiveRamp(settings)) :
                                   ascii[k] = ActiveRamp(settings)[m]

\* The conversion of the 2x1 image (255,255,255), (0,0,0) with width = 2 and
\* the simple ramp has returned.
WhiteBlackCall ==
    /\ pc = "done"
    /\ img.naturalWidth = 2
    /\ img.naturalHeight = 1
    /\ img.data = <<255, 255, 255, 255, 0, 0, 0, 255>>
    /\ options0 = [width |-> 2, charSet |-> CHAR_SETS.simple]

\* C7 (as the code has it): that conversion returns the text " #\n": the
\* white pixel, which comes first, maps to the last character of "#. " and
\* the black one to the first.
C7_WhiteBlackText == WhiteBlackCall => result.text = <<" ", "#", "\n">>

\* C7 (as stated): that conversion returns the text "# \n".
C7_AsStated == WhiteBlackCall => result.text = <<"#", " ", "\n">>

C7_Witness == WhiteBlackCall /\ variant = "public" /\ img.kind = "url"

\* The width the caller asked for (the default when none was given).
RequestedWidth == IF Has(options0, "width") THEN options0.width ELSE defaults.width

\* n = round(num / den), for den > 0, said without the rounding operator.
IsRounded(n, num, den) == (2 * n - 1) * den <= 2 * num /\ 2 * num < (2 * n + 1) * den

\* C8: for every positive width, also above 500, the grid has exactly
\* round(width * stretchWidth / 100) columns for the width the caller gave, and
\* no confirmation is asked for.
C8_WidthAsGiven ==
    /\ confirmAnswer = None
    /\ pc \in AfterStretch =>
          IsRounded(effectiveWidth, RequestedWidth * settings.stretchWidth, 100)

\* C9: once the call has returned, the caller's options object has the fields
\* and the values it had before the call.
C9_OptionsReadOnly == pc \in {"done", "rejected"} => options = options0

CellGlyph(yy, x) ==
    LET idx == (yy * effectiveWidth + x) * 4
    IN  Glyph(chars, CharIndex(variant, Len(chars),
                               pixels[idx + 1], pixels[idx + 2], pixels[idx + 3]))

\* C11: the text of a successful conversion is effectiveHeight rows, each of
\* effectiveWidth glyphs and one newline, in row-major order: the character at
\* row y, column x is the glyph of cell (x, y).
C11_TextShape ==
    pc = "done" =>
        /\ Len(result.text) = effectiveHeight * (effectiveWidth + 1)
        /\ \A yy \in 0..(effectiveHeight - 1) :
              /\ result.text[CellAt(yy, effectiveWidth)] = "\n"
              /\ \A x \in 0..(effectiveWidth - 1) :
                    /\ result.text[CellAt(yy, x)] # "\n"
                    /\ <<result.text[CellAt(yy, x)]>> = CellGlyph(yy, x)

\* C12: when effectiveWidth or effectiveHeight is 0 the conversion goes no
\* further than the canvas: it ends rejected, with no result.
C12_ZeroGridRejected ==
    (effectiveWidth = 0 \/ effectiveHeight = 0) =>
        /\ pc \notin {"adjust", "chars", "map", "image", "done"}
        /\ result = None

\* A conversion whose width rounded to 0 (height 1) has been rejected.
C12_Witness ==
    /\ pc = "rejected"
    /\ effectiveWidth = 0
    /\ effectiveHeight = 1
    /\ result = None

\* C13: with customChars empty and the charSet ramp empty the conversion is
\* rejected before any glyph is produced.
C13_EmptyRampRejected ==
    pc \in Mapping => Len(ActiveRamp(settings)) > 0

\* C14: a conversion returns a result with both text and image, or no result
\* at all; when createAsciiImage fails the text already built is not returned.
C14_AllOrNothing ==
    /\ pc = "done" => (DOMAIN result = {"text", "image"} /\ result.text = ascii)
    /\ pc # "done" => result = None

\* createAsciiImage has failed after the whole text was built.
C14_Witness ==
    /\ pc = "rejected"
    /\ effectiveHeight > 0
    /\ y = effectiveHeight
    /\ Len(ascii) > 0
    /\ result = None

\* The r, g, b of cell (x, yy) before the adjustments.
OriginalColor(yy, x) ==
    LET idx == (yy * effectiveWidth + x) * 4
    IN  <<input[idx + 1], input[idx + 2], input[idx + 3]>>

\* C15: with colorized set, the colour recorded for a cell, and used to draw
\* its glyph, is the r, g, b the cell had before applyImageAdjustments; with
\* colorized not set no colour map is built.
C15_OriginalColours ==
    /\ (pc \in Mapping /\ settings.colorized) =>
          \A yy \in 0..(y - 1) : \A x \in 0..(effectiveWidth - 1) :
              colorMap[yy + 1][x + 1] = OriginalColor(yy, x)
    /\ (pc \in Mapping /\ ~settings.colorized) => colorMap = <<>>
    /\ (pc = "done" /\ settings.colorized) =>
          \A f \in result.image.fills : f.color = OriginalColor(f.row, f.col)

\* The text of a conversion, as a function of the engine copy, the image and
\* the options: the steps of convertToAscii one after the other (None when
\* the grid is empty).
ConvertText(v, im, o) ==
    LET s0 == Merge(defaults, o)
        s == IF s0.height = 0 THEN [s0 EXCEPT !.height = AutoHeight(s0.width, im)] ELSE s0
        w == Stretched(s.width, s.stretchWidth)
        h == Stretched(s.height, s.stretchHeight)
    IN  IF w = 0 \/ h = 0 THEN <<None>>
        ELSE LET px == AdjustBuffer(v, s, Resample(im, w, h))
                 ramp == SelectChars(v, s)
             IN  Concat([r \in 1..h |-> RowGlyphs(v, ramp, px, w, r - 1) \o <<"\n">>])

\* The same options with the colorized flag the other way round.
FlipColorized(o) == Merge(o, [colorized |-> ~Merge(defaults, o).colorized])

\* C16: a conversion returns the text that the conversion of the same image
\* with the same options, but the other value of colorized, returns.
C16_TextIgnoresColorized ==
    pc = "done" => result.text = ConvertText(variant, img, FlipColorized(options))

\* A conversion that is not colorized, with inverting adjustments, has
\* returned a text.
C16_Witness ==
    /\ pc = "done"
    /\ ~settings.colorized
    /\ settings.invert = 100
    /\ Len(result.text) > 2

-----------------------------------------------------------------------------
(* getSettingsFromUI() followed by the merge of convertToAscii             *)
(*                                                                         *)
(* A form holds the value of each control initAsciiConverterUI creates: a   *)
(* text (sequence of characters) for the number, range and text inputs, the *)
(* chosen option of the select, the state of the checkbox.  NaN stands for  *)
(* the number NaN; no text of the model parses to a negative number.        *)

NaN == -1

Digits == <<"0", "1", "2", "3", "4", "5", "6", "7", "8", "9">>
IsDigit(c) == \E d \in 1..10 : Digits[d] = c
DigitValue(c) == (CHOOSE d \in 1..10 : Digits[d] = c) - 1

\* The number the leading digits of a text spell, after `acc`.
RECURSIVE LeadingDigits(_, _)
LeadingDigits(text, acc) ==
    IF Len(text) = 0 \/ ~IsDigit(Head(text)) THEN acc
    ELSE LeadingDigits(Tail(text), 10 * acc + DigitValue(Head(text)))

\* parseInt(text, 10), and parseFloat(text) on texts without a fraction.
parseInt(text) ==
    IF Len(text) = 0 \/ ~IsDigit(Head(text)) THEN NaN ELSE LeadingDigits(text, 0)

\* a || b for a number a
OrElse(a, b) == IF a = NaN \/ a = 0 THEN b ELSE a

Text(n) == IF n = 100 THEN <<"1", "0", "0">>
           ELSE IF n = 200 THEN <<"2", "0", "0">>
           ELSE IF n = 37 THEN <<"3", "7">>
           ELSE IF n = 90 THEN <<"9", "0">>
           ELSE <<"0">>

\* The controls of each copy, in the states a user can bring them to: the
\* number input (public: width) may be empty, a range input always holds a
\* number, the select holds one of its options.
Forms(v) ==
    { [width |-> w, stretchWidth |-> Text(100), stretchHeight |-> Text(sh),
       brightness |-> Text(b), contrast |-> Text(100), saturation |-> Text(100),
       grayscale |-> Text(0), invert |-> Text(0), hue |-> Text(h), sepia |-> Text(0),
       charSetType |-> c, customChars |-> cc, colorized |-> col] :
        w \in {Text(100), Text(37)} \cup (IF v = "public" THEN {<<>>} ELSE {}),
        sh \in {100, 200}, b \in {0, 100, 200}, h \in {0, 90},
        c \in {"standard", "simple"} \cup (IF v = "public" THEN {"custom"} ELSE {}),
        cc \in {<<>>, <<"A", "B">>}, col \in BOOLEAN }

NoForm == [f \in {} |-> 0]

\* (mutant) the width parsed without the fallback to the default
getSettingsFromUINoFallback(v, f) ==
    LET Num(id) == parseInt(f[id])
    IN  [width |-> Num("width"), brightness |-> Num("brightness"),
         contrast |-> Num("contrast"), saturation |-> Num("saturation"),
         grayscale |-> Num("grayscale"), invert |-> Num("invert"), hue |-> Num("hue"),
         sepia |-> Num("sepia"), colorized |-> f.colorized,
         customChars |-> f.customChars, stretchWidth |-> Num("stretchWidth"),
         stretchHeight |-> Num("stretchHeight")]

\* getSettingsFromUI()
\*   public:   each control read by id, parseInt, `|| defaults.x` on width,
\*             height (there is no height control) and the stretch factors
\*   part_008: every input and select of the container, keyed by its id
\*             without "ascii-", parseFloat on the range inputs
getSettingsFromUI(v, f) ==
    LET Num(id) == parseInt(f[id])
    IN  IF v = "public"
        THEN [width |-> OrElse(Num("width"), defaults.width),
              height |-> OrElse(NaN, defaults.height),
              brightness |-> Num("brightness"), contrast |-> Num("contrast"),
              saturation |-> Num("saturation"), grayscale |-> Num("grayscale"),
              invert |-> Num("invert"), hue |-> Num("hue"), sepia |-> Num("sepia"),
              colorized |-> f.colorized,
              charSet |-> IF f.charSetType # "custom" /\ f.charSetType \in DOMAIN CHAR_SETS
                          THEN CHAR_SETS[f.charSetType] ELSE CHAR_SETS.standard,
              customChars |-> f.customChars,
              stretchWidth |-> OrElse(Num("stretchWidth"), defaults.stretchWidth),
              stretchHeight |-> OrElse(Num("stretchHeight"), defaults.stretchHeight)]
        ELSE [charSetType |-> f.charSetType, customChars |-> f.customChars,
              width |-> Num("width"), brightness |-> Num("brightness"),
              contrast |-> Num("contrast"), saturation |-> Num("saturation"),
              grayscale |-> Num("grayscale"), invert |-> Num("invert"),
              hue |-> Num("hue"), sepia |-> Num("sepia"),
              stretchWidth |-> Num("stretchWidth"),
              stretchHeight |-> Num("stretchHeight"), colorized |-> f.colorized]

\* Options objects a caller writes by hand, leaving fields out.
DirectOptions == StyleOptions \cup SmallSizes

\* Either the component is about to read the form, or a caller has made the
\* call with its own options.
InitUI ==
    /\ variant \in Variants
    /\ \/ /\ form \in Forms(variant)
          /\ options = NoOptions
          /\ pc = "ui"
       \/ /\ form = NoForm
          /\ options \in DirectOptions
          /\ pc = "start"
    /\ options0 = options
    /\ confirmAnswer = None
    /\ settings = None
    /\ img = None
    /\ effectiveWidth = 0
    /\ effectiveHeight = 0
    /\ pixels = <<>>
    /\ originalPixels = <<>>
    /\ input = <<>>
    /\ chars = <<>>
    /\ ascii = <<>>
    /\ colorMap = <<>>
    /\ y = 0
    /\ i = 0
    /\ rgb = <<0, 0, 0>>
    /\ result = None
    /\ hslTriple = None
    /\ AppIdle

\* const settings = window.asciiConverter.getSettingsFromUI();
\* window.asciiConverter.convertToAscii(img, settings)
GetSettingsFromUI ==
    /\ pc = "ui"
    /\ options' = getSettingsFromUI(variant, form)
    /\ options0' = options'
    /\ pc' = "start"
    /\ UNCHANGED <<appVars, form, hslTriple, variant, confirmAnswer, settings, img, effectiveWidth,
                   effectiveHeight, pixels, originalPixels, input, chars, ascii, colorMap,
                   y, i, rgb, result>>

NextUI ==
    \/ GetSettingsFromUI
    \/ NoConfirm
    \/ MergeDefaults

SpecUI == InitUI /\ [][NextUI]_vars

\* The defaults as the specification documents them.
DocumentedDefaults ==
    [width |-> 100, brightness |-> 100, contrast |-> 100, saturation |-> 100,
     grayscale |-> 0, invert |-> 0, hue |-> 0, sepia |-> 0, colorized |-> FALSE,
     charSet |-> <<"█", "▓", "▒", "░">>, customChars |-> <<>>,
     stretchWidth |-> 100, stretchHeight |-> 100]

NumericFields ==
    {"width", "height", "brightness", "contrast", "saturation", "grayscale", "invert",
     "hue", "sepia", "stretchWidth", "stretchHeight"}

\* C17: after the merge every field of the settings table is present, a field
\* the caller (or getSettingsFromUI) left out has its documented default, and
\* no numeric field is NaN: a control that holds no number gives the default.
C17_DefaultsApplied ==
    pc = "load" =>
        /\ DOMAIN DocumentedDefaults \subseteq DOMAIN settings
        /\ \A f \in DOMAIN DocumentedDefaults \ DOMAIN options0 :
              settings[f] = DocumentedDefaults[f]
        /\ \A f \in NumericFields : f \in DOMAIN settings /\ settings[f] # NaN
        /\ (DOMAIN form # {} /\ form.width = <<>>) => settings.width = 100

\* The settings of a form whose width control is empty have been merged.
C17_Witness ==
    /\ pc = "load"
    /\ DOMAIN form # {}
    /\ form.width = <<>>
    /\ form.brightness = Text(200)
    /\ settings.width = 100
    /\ settings.brightness = 200

-----------------------------------------------------------------------------
(* The mapping loop on a row of two cells                                  *)

Ramps == { CHAR_SETS[name] : name \in DOMAIN CHAR_SETS } \cup { <<"X">>, <<"A", "B">> }

\* The loop is about to map one row of two adjusted pixels with some ramp.
InitMap ==
    /\ variant \in Variants
    /\ chars \in Ramps
    /\ \E a \in 1..Len(Palette), b \in 1..Len(Palette) :
           pixels = Flatten4(<<Palette[a], Palette[b]>>)
    /\ originalPixels = pixels
    /\ input = pixels
    /\ settings = defaults
    /\ effectiveWidth = 2
    /\ effectiveHeight = 1
    /\ ascii = <<>>
    /\ colorMap = <<>>
    /\ y = 0
    /\ pc = "map"
    /\ options = NoOptions
    /\ options0 = NoOptions
    /\ confirmAnswer = None
    /\ img = None
    /\ i = 0
    /\ rgb = <<0, 0, 0>>
    /\ result = None
    /\ form = None
    /\ hslTriple = None
    /\ AppIdle

NextMap == MapRow

SpecMap == InitMap /\ [][NextMap]_vars

\* 1000 times the weighted luminance of cell x of the row.
Luminance1000(x) ==
    299 * pixels[4 * x + 1] + 587 * pixels[4 * x + 2] + 114 * pixels[4 * x + 3]

\* The index the loop computes for cell x of the row.
IndexOfCell(x) ==
    CharIndex(variant, Len(chars), pixels[4 * x + 1], pixels[4 * x + 2], pixels[4 * x + 3])

\* C18: for a fixed ramp the index chosen for a cell does not decrease when
\* the (weighted) luminance of the cell grows, and it lies in 0..n-1; the
\* glyph appended is the one at that index.
C18_MonotoneIndex ==
    pc = "image" =>
        /\ \A x \in {0, 1} : /\ IndexOfCell(x) \in 0..(Len(chars) - 1)
                             /\ ascii[x + 1] = chars[IndexOfCell(x) + 1]
        /\ \A a, b \in {0, 1} :
              Luminance1000(a) <= Luminance1000(b) => IndexOfCell(a) <= IndexOfCell(b)

\* C19: when the active ramp has one character, every character of the text
\* other than the newlines is that character.
C19_SingleGlyph ==
    (pc \in Mapping /\ Len(ActiveRamp(settings)) = 1) =>
        \A k \in 1..Len(ascii) : ascii[k] = "\n" \/ ascii[k] = ActiveRamp(settings)[1]

\* A conversion with a one-character ramp, of an image that holds a white and
\* a black pixel, has returned.
C19_Witness ==
    /\ pc = "done"
    /\ Len(ActiveRamp(settings)) = 1
    /\ Len(result.text) >= 3
    /\ \E j, k \in 1..Len(pixels) : pixels[j] = 255 /\ pixels[k] = 0

-----------------------------------------------------------------------------
(* rgbToHsl followed by hslToRgb                                           *)

Channels == {0, 1, 60, 127, 128, 200, 254, 255}

\* A colour r, g, b (kept in `pixels` as one opaque pixel) is about to be
\* converted.
InitHsl ==
    /\ variant \in Variants
    /\ \E r \in Channels, g \in Channels, b \in Channels : pixels = <<r, g, b, 255>>
    /\ rgb = <<Fx(pixels[1]), Fx(pixels[2]), Fx(pixels[3])>>
    /\ hslTriple = None
    /\ AppIdle
    /\ pc = "rgbToHsl"
    /\ input = pixels
    /\ originalPixels = <<>>
    /\ settings = None
    /\ options = NoOptions
    /\ options0 = NoOptions
    /\ confirmAnswer = None
    /\ img = None
    /\ effectiveWidth = 0
    /\ effectiveHeight = 0
    /\ chars = <<>>
    /\ ascii = <<>>
    /\ colorMap = <<>>
    /\ y = 0
    /\ i = 0
    /\ result = None
    /\ form = None

HslFrame ==
    UNCHANGED <<appVars, form, variant, options, options0, confirmAnswer, settings, img,
                effectiveWidth, effectiveHeight, pixels, originalPixels, input, chars,
                ascii, colorMap, y, i, result>>

\* const hsl = rgbToHsl(r, g, b)
RgbToHsl ==
    /\ pc = "rgbToHsl"
    /\ hslTriple' = rgbToHsl(variant, rgb)
    /\ pc' = "hslToRgb"
    /\ UNCHANGED rgb
    /\ HslFrame

\* const rgb = hslToRgb(hsl[0], hsl[1], hsl[2])
HslToRgb ==
    /\ pc = "hslToRgb"
    /\ rgb' = hslToRgb(variant, hslTriple[1], hslTriple[2], hslTriple[3])
    /\ pc' = "back"
    /\ UNCHANGED hslTriple
    /\ HslFrame

NextHsl ==
    \/ RgbToHsl
    \/ HslToRgb

SpecHsl == InitHsl /\ [][NextHsl]_vars

\* C20: hslToRgb(rgbToHsl(r, g, b)) is within 1 of (r, g, b) on each channel.
C20_HslRoundTrip ==
    pc = "back" => \A k \in 1..3 : Abs(rgb[k] - Fx(pixels[k])) <= Fx(1)

\* A colour whose hue wraps (red is the largest channel and green is below
\* blue) has made the round trip in part_008.
C20_Witness ==
    /\ pc = "back"
    /\ variant = "part_008"
    /\ pixels = <<200, 60, 127, 255>>

\* The colour being converted is achromatic.
IsGrey == pixels[1] = pixels[2] /\ pixels[2] = pixels[3]

\* The bytes a triple of channel values is stored as.
Stored(c) == <<ToUint8Clamped(c[1]), ToUint8Clamped(c[2]), ToUint8Clamped(c[3])>>

\* The settings that rotate the hue by `amount` and do nothing else.
HueOnly(amount) == [NeutralSettings EXCEPT !.hue = amount]

\* C21: for an achromatic colour (v, v, v) rgbToHsl gives saturation 0 and
\* hslToRgb gives back three equal channels that are v (to the grain of the
\* arithmetic, exactly v once stored); a hue rotation of any amount leaves
\* the pixel as it was.
C21_AchromaticRoundTrip ==
    IsGrey =>
        /\ pc \in {"hslToRgb", "back"} => hslTriple[2] = 0
        /\ pc = "back" =>
              /\ rgb[1] = rgb[2] /\ rgb[2] = rgb[3]
              /\ Stored(rgb) = <<pixels[1], pixels[2], pixels[3]>>
              /\ 2 * Abs(rgb[1] - Fx(pixels[1])) < Fx(1)
              /\ \A amount \in {1, 50, 90, 180, 300, 360} :
                    Stored(ApplyHue(variant, HueOnly(amount),
                                    <<Fx(pixels[1]), Fx(pixels[2]), Fx(pixels[3])>>))
                        = <<pixels[1], pixels[2], pixels[3]>>

\* The grey (200, 200, 200) has made the round trip in public.
C21_Witness ==
    /\ pc = "back"
    /\ variant = "public"
    /\ pixels = <<200, 200, 200, 255>>

\* C22: the surface createAsciiImage draws on has as many rows as the text
\* has glyph rows (effectiveHeight; the newline that ends the last row adds
\* none) and as many columns as a glyph row is long (effectiveWidth).
C22_SurfaceFitsGrid ==
    pc = "done" =>
        /\ result.image.rows = effectiveHeight
        /\ result.image.columns = effectiveWidth

-----------------------------------------------------------------------------
(* The rate-limit route: src/app/api/rate-limit/route.ts                   *)
(*                                                                         *)
(* A handler runs from its first line to its response without yielding     *)
(* (the file is read and written with the synchronous fs calls), so one    *)
(* request is one step.  `limits` is a JavaScript object: it has its own   *)
(* properties (what Object.keys lists and JSON.stringify writes) and a     *)
(* prototype, which the key "__proto__" reads and assigns.                 *)

RATE_LIMIT == 10

MaxRequests == 12      \* requests followed on one date
MaxDay == 1            \* dates followed: 0 .. MaxDay
MaxFaults == 1         \* failed reads or writes followed

IoOutcomes == {"ok", "readError", "writeError"}

\* getRateLimits(): the parsed file; {} when it is missing or cannot be read.
\* proto = <<>> stands for Object.prototype, <<e>> for the object e.
getRateLimits(io) ==
    [own |-> IF io = "readError" THEN EmptyFile ELSE file, proto |-> <<>>]

\* (mutant) the entries of earlier dates are kept
KeepAll(limits, date) == limits

\* Object.keys(limits).forEach(key => { if (limits[key].lastReset !== today)
\*   delete limits[key] })
Cleanup(limits, date) ==
    [limits EXCEPT !.own = [k \in {k2 \in DOMAIN limits.own :
                                      limits.own[k2].lastReset = date}
                               |-> limits.own[k]]]

\* !limits[ip] || limits[ip].lastReset !== today.  limits["__proto__"] is the
\* prototype: Object.prototype is truthy and has no lastReset.
Stale(limits, ip, date) ==
    IF ip = "__proto__"
    THEN limits.proto = <<>> \/ limits.proto[1].lastReset # date
    ELSE ip \notin DOMAIN limits.own \/ limits.own[ip].lastReset # date

\* limits[ip] = entry.  With ip = "__proto__" the assignment replaces the
\* prototype of limits and adds no own property.
Put(limits, ip, entry) ==
    IF ip = "__proto__"
    THEN [limits EXCEPT !.proto = <<entry>>]
    ELSE [limits EXCEPT !.own = (ip :> entry) @@ limits.own]

\* limits[ip], read after the entry was ensured
Get(limits, ip) ==
    IF ip = "__proto__" THEN limits.proto[1] ELSE limits.own[ip]

\* const allowed = entry.count < RATE_LIMIT
Allowed(entry) == entry.count < RATE_LIMIT

\* (mutant) the file is written on every request
ShouldSaveAlways(allowed) == TRUE

\* if (allowed) { ...; saveRateLimits(limits) }
ShouldSave(allowed) == allowed

\* checkRateLimit(ip): the response, and what is written to the file
\* (<<>>: writeFileSync is not called; <<f>>: it is called with f).
checkRateLimit(ip, date, io) ==
    LET limits0 == getRateLimits(io)
        limits1 == Cleanup(limits0, date)
        limits2 == IF Stale(limits1, ip, date)
                   THEN Put(limits1, ip, [ip |-> ip, count |-> 0, lastReset |-> date])
                   ELSE limits1
        entry   == Get(limits2, ip)
        allowed == Allowed(entry)
        counted == IF allowed THEN [entry EXCEPT !.count = @ + 1] ELSE entry
        limits3 == Put(limits2, ip, counted)
    IN  [allowed   |-> allowed,
         remaining |-> Max2(0, RATE_LIMIT - counted.count),
         saved     |-> IF ShouldSave(allowed) THEN <<limits3.own>> ELSE <<>>]

RateFrame == UNCHANGED <<engineVars, generatorVars, converterVars, routeVars>>

RECURSIVE Sum(_, _)
Sum(f, S) == IF S = {} THEN 0 ELSE LET x == CHOOSE x \in S : TRUE IN f[x] + Sum(f, S \ {x})

\* One request: const ip = request.headers.get('x-forwarded-for') || 'unknown';
\* return NextResponse.json(checkRateLimit(ip)).
Handle(header, io) ==
    LET ip  == ClientIp(header)
        out == checkRateLimit(ip, today, io)
    IN  /\ Sum(requestsToday, Ips) < MaxRequests
        /\ io # "ok" => faults < MaxFaults
        /\ response' = [ip |-> ip, allowed |-> out.allowed, remaining |-> out.remaining]
        /\ fileBefore' = file
        /\ wrote' = (out.saved # <<>>)
        /\ file' = IF out.saved # <<>> /\ io # "writeError" THEN out.saved[1] ELSE file
        /\ requestsToday' = [requestsToday EXCEPT ![ip] = @ + 1]
        /\ allowedToday' = [allowedToday EXCEPT ![ip] = @ + (IF out.allowed THEN 1 ELSE 0)]
        /\ faults' = faults + (IF io = "ok" THEN 0 ELSE 1)
        /\ UNCHANGED today
        /\ RateFrame

\* export async function GET(request)
GET == \E header \in Headers, io \in IoOutcomes : Handle(header, io)

\* export async function POST(request)
POST == \E header \in Headers, io \in IoOutcomes : Handle(header, io)

\* The server clock passes midnight UTC: new Date().toISOString() gives the
\* next date.
Midnight ==
    /\ today < MaxDay
    /\ today' = today + 1
    /\ requestsToday' = [ip \in Ips |-> 0]
    /\ allowedToday' = [ip \in Ips |-> 0]
    /\ UNCHANGED <<file, response, fileBefore, wrote, faults>>
    /\ RateFrame

\* No engine call is running while the route is followed.
EngineIdle ==
    /\ variant = "public"
    /\ pc = "idle"
    /\ options = NoOptions
    /\ options0 = NoOptions
    /\ confirmAnswer = None
    /\ settings = None
    /\ img = None
    /\ effectiveWidth = 0
    /\ effectiveHeight = 0
    /\ pixels = <<>>
    /\ originalPixels = <<>>
    /\ input = <<>>
    /\ chars = <<>>
    /\ ascii = <<>>
    /\ colorMap = <<>>
    /\ y = 0
    /\ i = 0
    /\ rgb = <<0, 0, 0>>
    /\ result = None
    /\ form = None
    /\ hslTriple = None

InitRate == EngineIdle /\ AppIdle

NextRate == GET \/ POST \/ Midnight

SpecRate == InitRate /\ [][NextRate]_vars

\* A read or a write of the file has failed.
ioFailed == faults > 0

\* A request has been answered on the date `today`; `response` is the answer
\* to the last one.
AnsweredToday == \E ip \in Ips : requestsToday[ip] > 0

\* C23: of the requests that carry one x-forwarded-for value (or none) on one
\* UTC date, at most RATE_LIMIT are answered allowed = true, as long as the
\* file could be read and written.
C23_AtMostTenAllowed ==
    ~ioFailed => \A ip \in Ips : allowedToday[ip] <= RATE_LIMIT

\* C24: the first request of an ip on a date is answered allowed = true with
\* remaining = 9 whatever the file held for it, and the entries of other
\* dates are dropped: the file that request writes holds none of them.
C24_ResetsWithDate ==
    AnsweredToday =>
        /\ requestsToday[response.ip] = 1 =>
               response.allowed /\ response.remaining = RATE_LIMIT - 1
        /\ (wrote /\ ~ioFailed) => \A k \in DOMAIN file : file[k].lastReset = today

\* An ip that used its whole quota on date 0 is allowed again on date 1, and
\* the file has been written on that date.
C24_Witness ==
    /\ today = 1
    /\ ~ioFailed
    /\ AnsweredToday
    /\ requestsToday[response.ip] = 1
    /\ response.ip \in DOMAIN fileBefore
    /\ fileBefore[response.ip] = [ip |-> response.ip, count |-> RATE_LIMIT, lastReset |-> 0]
    /\ \E k \in DOMAIN fileBefore : k # response.ip
    /\ wrote

\* C25: an allowed response has remaining = RATE_LIMIT minus the number of
\* requests of that ip allowed so far on the date (so 0..9), a refused one
\* has remaining = 0; remaining is never negative and no stored count
\* exceeds RATE_LIMIT.
C25_RemainingCounts ==
    /\ (AnsweredToday /\ ~ioFailed) =>
          /\ response.allowed =>
                /\ response.remaining = RATE_LIMIT - allowedToday[response.ip]
                /\ response.remaining \in 0 .. RATE_LIMIT - 1
          /\ ~response.allowed => response.remaining = 0
    /\ response.remaining >= 0
    /\ \A k \in DOMAIN file : file[k].count <= RATE_LIMIT

\* C26: a request answered allowed = false does not call writeFileSync, and
\* the file, the entries of the other ips included, is as the request found
\* it.
C26_RefusalWritesNothing ==
    (response # NoResponse /\ ~response.allowed) => (~wrote /\ file = fileBefore)

\* A request was refused while the file held the count of another ip too.
C26_Witness ==
    /\ response # NoResponse
    /\ ~response.allowed
    /\ ~ioFailed
    /\ \E k \in DOMAIN file : k # response.ip /\ file[k].count > 0
    /\ file[response.ip].count = RATE_LIMIT

-----------------------------------------------------------------------------
(* The ImageGenerator component                                            *)
(*   "part_003"  src/unnamed/part_003  (GetImg behind the rate-limit check) *)
(*   "part_002"  src/unnamed/part_002, second component (no such check)     *)
(*                                                                         *)
(* A handler runs to its next await in one step; React renders the new     *)
(* state before the next event is dispatched, so the `disabled` attribute  *)
(* of a button is its expression over the current state.                   *)

Generators == {"part_003", "part_002"}

MaxClicks == 3         \* clicks on the generate buttons followed

GeneratorFrame == UNCHANGED <<engineVars, rateVars, converterVars, routeVars>>

InitGenerator ==
    /\ EngineIdle
    /\ RateIdle
    /\ ConverterIdle
    /\ RoutesIdle
    /\ generator \in Generators
    /\ prompt = ""
    /\ geminiApiKey = ""
    /\ selectedModel = ""
    /\ generatingGemini = FALSE
    /\ generatingGetImg = FALSE
    /\ generatorError = ""
    /\ pendingChecks = 0
    /\ pendingGemini = 0
    /\ pendingGetImg = 0
    /\ clicks = 0

\* onChange of the description: setPrompt(e.target.value)
SetPrompt ==
    /\ \E text \in {"", "a red fox"} : prompt' = text
    /\ prompt' # prompt
    /\ UNCHANGED <<generator, geminiApiKey, selectedModel, generatingGemini,
                   generatingGetImg, generatorError, pendingChecks, pendingGemini,
                   pendingGetImg, clicks>>
    /\ GeneratorFrame

\* onChange of the key field: setGeminiApiKey(e.target.value)
SetGeminiApiKey ==
    /\ \E text \in {"", "AIza-key"} : geminiApiKey' = text
    /\ geminiApiKey' # geminiApiKey
    /\ UNCHANGED <<generator, prompt, selectedModel, generatingGemini,
                   generatingGetImg, generatorError, pendingChecks, pendingGemini,
                   pendingGetImg, clicks>>
    /\ GeneratorFrame

\* onChange of the model select, or fetchModels choosing the default model:
\* setSelectedModel(...)
SetSelectedModel ==
    /\ \E text \in {"", "juggernaut-xl:stable-diffusion-xl"} : selectedModel' = text
    /\ selectedModel' # selectedModel
    /\ UNCHANGED <<generator, prompt, geminiApiKey, generatingGemini,
                   generatingGetImg, generatorError, pendingChecks, pendingGemini,
                   pendingGetImg, clicks>>
    /\ GeneratorFrame

\* disabled={generatingGemini || generatingGetImg || !geminiApiKey}
GeminiDisabled == generatingGemini \/ generatingGetImg \/ geminiApiKey = ""

\* disabled={generatingGemini || generatingGetImg || !selectedModel}
GetImgDisabled == generatingGemini \/ generatingGetImg \/ selectedModel = ""

\* A click on "Generate with Gemini": generateGeminiImage up to its await.
ClickGemini ==
    /\ clicks < MaxClicks
    /\ ~GeminiDisabled
    /\ clicks' = clicks + 1
    /\ IF prompt = ""
       THEN /\ generatorError' = "Please enter a description"
            /\ UNCHANGED <<generatingGemini, pendingGemini>>
       ELSE /\ generatorError' = ""
            /\ generatingGemini' = TRUE
            /\ pendingGemini' = pendingGemini + 1
    /\ UNCHANGED <<generator, prompt, geminiApiKey, selectedModel, generatingGetImg,
                   pendingChecks, pendingGetImg>>
    /\ GeneratorFrame

\* A click on "Generate with GetImg": generateGetImgImage up to its first
\* await.  part_003 awaits checkRateLimit() first and sets nothing before
\* it; part_002 sets generatingGetImg and sends the generation request.
ClickGetImg ==
    /\ clicks < MaxClicks
    /\ ~GetImgDisabled
    /\ clicks' = clicks + 1
    /\ IF prompt = ""
       THEN /\ generatorError' = "Please enter a description"
            /\ UNCHANGED <<generatingGetImg, pendingChecks, pendingGetImg>>
       ELSE IF generator = "part_003"
       THEN /\ pendingChecks' = pendingChecks + 1
            /\ UNCHANGED <<generatorError, generatingGetImg, pendingGetImg>>
       ELSE /\ generatorError' = ""
            /\ generatingGetImg' = TRUE
            /\ pendingGetImg' = pendingGetImg + 1
            /\ UNCHANGED pendingChecks
    /\ UNCHANGED <<generator, prompt, geminiApiKey, selectedModel, generatingGemini,
                   pendingGemini>>
    /\ GeneratorFrame

\* fetch('/api/rate-limit') settles and generateGetImgImage resumes: with
\* allowed = true it sets generatingGetImg and sends the generation request;
\* with allowed = false, or when the fetch failed, it reports the limit.
RateLimitAnswered ==
    /\ pendingChecks > 0
    /\ pendingChecks' = pendingChecks - 1
    /\ \E isAllowed \in BOOLEAN :
          IF isAllowed
          THEN /\ generatorError' = ""
               /\ generatingGetImg' = TRUE
               /\ pendingGetImg' = pendingGetImg + 1
          ELSE /\ generatorError' = "Daily GetImg generation limit reached"
               /\ UNCHANGED <<generatingGetImg, pendingGetImg>>
    /\ UNCHANGED <<generator, prompt, geminiApiKey, selectedModel, generatingGemini,
                   pendingGemini, clicks>>
    /\ GeneratorFrame

\* fetch('/api/generate-image/gemini') settles: the image is shown or the
\* error is; finally setGeneratingGemini(false).
GeminiAnswered ==
    /\ pendingGemini > 0
    /\ pendingGemini' = pendingGemini - 1
    /\ \E ok \in BOOLEAN :
          generatorError' = IF ok THEN generatorError
                            ELSE "Failed to generate image with Gemini"
    /\ generatingGemini' = FALSE
    /\ UNCHANGED <<generator, prompt, geminiApiKey, selectedModel, generatingGetImg,
                   pendingChecks, pendingGetImg, clicks>>
    /\ GeneratorFrame

\* fetch('/api/generate-image/getimg') settles; finally
\* setGeneratingGetImg(false).
GetImgAnswered ==
    /\ pendingGetImg > 0
    /\ pendingGetImg' = pendingGetImg - 1
    /\ \E ok \in BOOLEAN :
          generatorError' = IF ok THEN generatorError
                            ELSE "Failed to generate image with GetImg"
    /\ generatingGetImg' = FALSE
    /\ UNCHANGED <<generator, prompt, geminiApiKey, selectedModel, generatingGemini,
                   pendingChecks, pendingGemini, clicks>>
    /\ GeneratorFrame

NextGenerator ==
    \/ SetPrompt
    \/ SetGeminiApiKey
    \/ SetSelectedModel
    \/ ClickGemini
    \/ ClickGetImg
    \/ RateLimitAnswered
    \/ GeminiAnswered
    \/ GetImgAnswered

SpecGenerator == InitGenerator /\ [][NextGenerator]_vars

\* C27: at most one generation is in progress: while the one a click started
\* has not finished, no other click sends a generation request or a
\* rate-limit request.
C27_OneGenerationAtATime ==
    /\ pendingGemini + pendingGetImg <= 1
    /\ pendingChecks + pendingGemini + pendingGetImg <= 1

-----------------------------------------------------------------------------
(* The AsciiConverter component                                            *)
(*   "part_000"  src/unnamed/part_000                                      *)
(*   "part_001"  src/unnamed/part_001                                      *)
(*   "part_002"  src/unnamed/part_002, first component                     *)
(*                                                                         *)
(* An async function runs to its next await in one step and is then an     *)
(* entry of `running`; the entry holds what its closure captured.  A       *)
(* function created in one render sees the state of that render: the       *)
(* currentImage a callback tests is the one captured when it was created.  *)

Components == {"part_000", "part_001", "part_002"}

Wait == 300            \* debounce(..., 300)
TickMs == 100          \* grain of the clock
MaxTime == 800         \* the clock is followed up to this time
MaxEvents == 3         \* input/change events followed
MaxImages == 2         \* image URLs followed

\* The controls of the settings form an event can come from.
Controls == {"ascii-width", "ascii-charSet"}

ConverterFrame == UNCHANGED <<engineVars, rateVars, generatorVars, routeVars>>

\* part_001 names updateAsciiConversionCallback in the dependency list of
\* loadImage (line 110) above its `const` declaration (line 121): a build
\* that keeps `const` throws a ReferenceError in every render, one that
\* lowers it to `var` reads undefined there and goes on.
InitConverter ==
    /\ EngineIdle
    /\ RateIdle
    /\ GeneratorIdle
    /\ RoutesIdle
    /\ component \in Components
    /\ renders \in (IF component = "part_001" THEN BOOLEAN ELSE {TRUE})
    /\ engineReady = FALSE
    /\ loading = FALSE
    /\ currentImage = 0
    /\ running = <<>>
    /\ now = 0
    /\ timers = {}
    /\ lastEvent = 0
    /\ events = 0
    /\ debounced = 0
    /\ lastStart = NoStart
    /\ imageUrls = 0

\* s without its k-th element
Without(s, k) == SubSeq(s, 1, k - 1) \o SubSeq(s, k + 1, Len(s))

\* /conv2ascii.js has run: window.asciiConverter is defined (and, in
\* part_000 and part_002, onLoad sets scriptLoaded).
ScriptLoads ==
    /\ renders
    /\ ~engineReady
    /\ engineReady' = TRUE
    /\ UNCHANGED <<component, renders, loading, currentImage, running, now, timers,
                   lastEvent, events, debounced, lastStart, imageUrls>>
    /\ ConverterFrame

\* scriptLoaded: part_001 sets it as soon as it is mounted (lines 79-83), the
\* other two in the onLoad of the script.
ScriptLoaded == component = "part_001" \/ engineReady

\* The imageUrl prop takes a new value: the effect calls loadImage(url),
\* which runs to its await.  part_001 calls setLoading(true) first.
NewImageUrl ==
    /\ renders
    /\ ScriptLoaded
    /\ imageUrls < MaxImages
    /\ imageUrls' = imageUrls + 1
    /\ running' = Append(running, [stage |-> "load", image |-> imageUrls + 1,
                                   captured |-> currentImage])
    /\ loading' = IF component = "part_001" THEN TRUE ELSE loading
    /\ UNCHANGED <<component, renders, engineReady, currentImage, now, timers,
                   lastEvent, events, debounced, lastStart>>
    /\ ConverterFrame

\* if (!currentImage || !window.asciiConverter) return, in the callback a
\* closure holds
CallbackSkips(captured) == captured = 0 \/ ~engineReady

\* img.onload: setCurrentImage(img), then the conversion.
\*   part_000, part_002: convertToAscii(img), which sets loading and awaits
\*     the engine;
\*   part_001: `if (window.asciiConverter) updateAsciiConversionCallback()`,
\*     the callback of the render that called loadImage, which returns at
\*     once when the currentImage of that render is null.
ImageLoaded(k) ==
    /\ k \in 1 .. Len(running)
    /\ running[k].stage = "load"
    /\ currentImage' = running[k].image
    /\ IF component = "part_001"
       THEN IF CallbackSkips(running[k].captured)
            THEN /\ running' = Without(running, k)
                 /\ UNCHANGED loading
            ELSE /\ running' = [running EXCEPT ![k] =
                                  [stage |-> "convert", image |-> running[k].captured,
                                   captured |-> running[k].captured]]
                 /\ loading' = TRUE
       ELSE IF ~engineReady
            THEN /\ running' = Without(running, k)
                 /\ UNCHANGED loading
            ELSE /\ running' = [running EXCEPT ![k] =
                                  [stage |-> "convert", image |-> running[k].image,
                                   captured |-> running[k].image]]
                 /\ loading' = TRUE
    /\ UNCHANGED <<component, renders, engineReady, now, timers, lastEvent, events,
                   debounced, lastStart, imageUrls>>
    /\ ConverterFrame

\* img.onerror: the promise rejects and loadImage reports the error;
\* part_001 also calls setLoading(false).
ImageFails(k) ==
    /\ k \in 1 .. Len(running)
    /\ running[k].stage = "load"
    /\ running' = Without(running, k)
    /\ loading' = IF component = "part_001" THEN FALSE ELSE loading
    /\ UNCHANGED <<component, renders, engineReady, currentImage, now, timers,
                   lastEvent, events, debounced, lastStart, imageUrls>>
    /\ ConverterFrame

\* window.asciiConverter.convertToAscii(...) resolves or rejects: the result
\* or the error is shown; finally setLoading(false).
ConversionSettles(k) ==
    /\ k \in 1 .. Len(running)
    /\ running[k].stage = "convert"
    /\ running' = Without(running, k)
    /\ loading' = FALSE
    /\ UNCHANGED <<component, renders, engineReady, currentImage, now, timers,
                   lastEvent, events, debounced, lastStart, imageUrls>>
    /\ ConverterFrame

\* part_002: fetch('/api/rate-limit') settles inside
\* updateAsciiConversionCallback: allowed, the conversion starts; refused or
\* failed, the limit is reported.
CheckAnswered(k) ==
    /\ k \in 1 .. Len(running)
    /\ running[k].stage = "rateLimit"
    /\ \E isAllowed \in BOOLEAN :
          IF isAllowed
          THEN /\ running' = [running EXCEPT ![k].stage = "convert"]
               /\ loading' = TRUE
          ELSE /\ running' = Without(running, k)
               /\ UNCHANGED loading
    /\ UNCHANGED <<component, renders, engineReady, currentImage, now, timers,
                   lastEvent, events, debounced, lastStart, imageUrls>>
    /\ ConverterFrame

\* The timer a debounced listener clears and sets.  part_000 wraps every
\* listener in its own debounce(), each with its own `timeout`; part_001 and
\* part_002 make one createDebounce() whose timeoutId all listeners share.
TimerOf(control) == IF component = "part_000" THEN control ELSE "shared"

\* The currentImage the listener's closure holds.  part_000 adds the
\* listeners once, from the effect that runs when the script has loaded, in
\* a render where no image is loaded yet; part_001 and part_002 add them
\* afresh whenever currentImage changes.
ListenerImage == IF component = "part_000" THEN 0 ELSE currentImage

\* An input or change event on a control of the settings form while an image
\* is shown: clearTimeout(timeout); timeout = setTimeout(..., 300).
\* Events are followed as one burst: each less than Wait after the one before.
SettingsEvent(control) ==
    /\ renders
    /\ engineReady
    /\ currentImage # 0
    /\ events < MaxEvents
    /\ now + Wait <= MaxTime
    /\ events > 0 => now - lastEvent < Wait
    /\ events' = events + 1
    /\ lastEvent' = now
    /\ timers' = {t \in timers : t.timer # TimerOf(control)}
                    \cup {[timer |-> TimerOf(control), due |-> now + Wait,
                           captured |-> ListenerImage]}
    /\ UNCHANGED <<component, renders, engineReady, loading, currentImage, running,
                   now, debounced, lastStart, imageUrls>>
    /\ ConverterFrame

\* A timeout fires: `if (currentImage) updateAsciiConversion()`, on the
\* currentImage of the closure.  part_002 asks the rate-limit route first.
TimerFires(t) ==
    /\ t \in timers
    /\ now >= t.due
    /\ timers' = timers \ {t}
    /\ IF t.captured = 0
       THEN UNCHANGED <<loading, running, debounced, lastStart>>
       ELSE /\ debounced' = debounced + 1
            /\ lastStart' = [at |-> now, image |-> t.captured, current |-> currentImage]
            /\ IF component = "part_002"
               THEN /\ running' = Append(running, [stage |-> "rateLimit",
                                                   image |-> t.captured,
                                                   captured |-> t.captured])
                    /\ UNCHANGED loading
               ELSE /\ running' = Append(running, [stage |-> "convert",
                                                   image |-> t.captured,
                                                   captured |-> t.captured])
                    /\ loading' = TRUE
    /\ UNCHANGED <<component, renders, engineReady, currentImage, now, lastEvent,
                   events, imageUrls>>
    /\ ConverterFrame

\* Time passes; a timeout that is due fires before the clock moves on.
Tick ==
    /\ now < MaxTime
    /\ \A t \in timers : now < t.due
    /\ now' = now + TickMs
    /\ UNCHANGED <<component, renders, engineReady, loading, currentImage, running,
                   timers, lastEvent, events, debounced, lastStart, imageUrls>>
    /\ ConverterFrame

\* What the runtime does on its own: promises settle, timeouts fire.
Settle ==
    \/ \E k \in 1 .. Len(running) :
          ImageLoaded(k) \/ ImageFails(k) \/ ConversionSettles(k) \/ CheckAnswered(k)
    \/ \E t \in timers : TimerFires(t)

NextConverter ==
    \/ ScriptLoads
    \/ NewImageUrl
    \/ \E k \in 1 .. MaxImages + MaxEvents : ImageLoaded(k)
    \/ \E k \in 1 .. MaxImages + MaxEvents : ImageFails(k)
    \/ \E k \in 1 .. MaxImages + MaxEvents : ConversionSettles(k)
    \/ \E k \in 1 .. MaxImages + MaxEvents : CheckAnswered(k)
    \/ \E control \in Controls : SettingsEvent(control)
    \/ \E t \in timers : TimerFires(t)
    \/ Tick

SpecConverter == InitConverter /\ [][NextConverter]_vars

\* The same component with the runtime's guarantees: a pending promise is
\* settled and a due timeout is fired in the end, and the clock moves.
\* Nothing obliges the user to type, click or pick another image.
SpecConverterLive ==
    InitConverter /\ [][NextConverter]_vars /\ WF_vars(Settle) /\ WF_vars(Tick)

BurstOver == events > 0 /\ now >= lastEvent + Wait /\ timers = {}

\* C29: a burst of events on the settings controls, each less than 300 ms
\* after the one before, starts exactly one conversion, not before 300 ms
\* after the last event of the burst, on the image that is current then.
C29_OneConversionPerBurst ==
    /\ debounced <= 1
    /\ debounced > 0 =>
          /\ lastStart.at >= lastEvent + Wait
          /\ lastStart.image = lastStart.current
    /\ BurstOver => debounced = 1

-----------------------------------------------------------------------------
(* The generate-image routes                                               *)
(*   "gemini"  src/unnamed/part_005   POST /api/generate-image/gemini      *)
(*   "getimg"  src/unnamed/part_006   POST /api/generate-image/getimg      *)
(*                                                                         *)
(* A handler runs to its upstream fetch in one step and from the answer to *)
(* its response in another.  A body is followed by what the code tests in  *)
(* it: whether it parses to an object and whether prompt and the second    *)
(* field (apiKey, model) are truthy.                                       *)

MaxServed == 2         \* requests followed

RouteFrame == UNCHANGED <<engineVars, rateVars, generatorVars, converterVars>>

\* request.json(): an object with or without its two fields, or a body that
\* does not parse to an object (request.json() or the destructuring throws).
Bodies ==
    [kind : {"object"}, prompt : BOOLEAN, second : BOOLEAN]
        \cup {[kind |-> "malformed", prompt |-> FALSE, second |-> FALSE]}

\* How the upstream fetch settles: with a response (its status and whether
\* its body is JSON, holding an image, holding none, or describing an
\* error), or rejected.
UpstreamStatuses == {200, 400, 429, 503}

Answers ==
    [kind : {"response"}, status : UpstreamStatuses,
     content : {"image", "noImage", "errorJson", "notJson"}]
        \cup {[kind |-> "rejected", status |-> 0, content |-> "none"]}

\* response.ok
Ok(status) == status >= 200 /\ status <= 299

InitRoutes ==
    /\ EngineIdle
    /\ RateIdle
    /\ GeneratorIdle
    /\ ConverterIdle
    /\ route = "gemini"
    /\ routePc = "idle"
    /\ body = NoBody
    /\ keyConfigured \in BOOLEAN
    /\ fetched = FALSE
    /\ upstreamAnswer = NoAnswer
    /\ routeResponse = NoRouteResponse
    /\ served = 0

\* NextResponse.json({ error }, { status })
ErrorResponse(status) == [status |-> status, imageData |-> FALSE]

\* The handler answers at once with `early`, or (early = 0) goes on to
\* await fetch(...).
Receive(name, requestBody, early) ==
    /\ routePc = "idle"
    /\ served < MaxServed
    /\ route' = name
    /\ body' = requestBody
    /\ upstreamAnswer' = NoAnswer
    /\ IF early = 0
       THEN /\ routePc' = "fetch"
            /\ fetched' = TRUE
            /\ UNCHANGED <<routeResponse, served>>
       ELSE /\ routePc' = "idle"
            /\ fetched' = FALSE
            /\ routeResponse' = ErrorResponse(early)
            /\ served' = served + 1
    /\ UNCHANGED keyConfigured
    /\ RouteFrame

\* part_005 lines 4-13 and the catch at 51-56: the status of the early
\* answer, 0 when the handler goes on to the fetch.
GeminiEarly(b) ==
    IF b.kind = "malformed" THEN 500
    ELSE IF ~b.prompt THEN 400
    ELSE IF ~b.second THEN 400
    ELSE 0

\* part_006 lines 17-30 and the catch at 75-80.
GetImgEarly(b) ==
    IF ~keyConfigured THEN 500
    ELSE IF b.kind = "malformed" THEN 500
    ELSE IF ~b.prompt THEN 400
    ELSE IF ~b.second THEN 400
    ELSE 0

\* POST /api/generate-image/gemini
GeminiPost == \E b \in Bodies : Receive("gemini", b, GeminiEarly(b))

\* POST /api/generate-image/getimg
GetImgPost == \E b \in Bodies : Receive("getimg", b, GetImgEarly(b))

\* The handler from the settled fetch to its response.
\*   rejected: the catch answers 500;
\*   not ok: `await response.json()` of the error body, then the upstream
\*     status is passed on; a body that is not JSON throws into the catch;
\*   ok: the body is parsed (a throw goes to the catch); gemini answers 500
\*     when no part holds inlineData, getimg answers { imageData: data.image }
\*     whatever data.image is.
FromUpstream(name, answer) ==
    IF answer.kind = "rejected" THEN ErrorResponse(500)
    ELSE IF answer.content = "notJson" THEN ErrorResponse(500)
    ELSE IF ~Ok(answer.status) THEN ErrorResponse(answer.status)
    ELSE IF answer.content = "image" THEN [status |-> 200, imageData |-> TRUE]
    ELSE IF name = "gemini" THEN ErrorResponse(500)
    ELSE [status |-> 200, imageData |-> FALSE]

\* The upstream fetch settles and the handler answers.
UpstreamSettles ==
    /\ routePc = "fetch"
    /\ \E answer \in Answers :
          /\ upstreamAnswer' = answer
          /\ routeResponse' = FromUpstream(route, answer)
    /\ routePc' = "idle"
    /\ served' = served + 1
    /\ UNCHANGED <<route, body, keyConfigured, fetched>>
    /\ RouteFrame

NextRoutes == GeminiPost \/ GetImgPost \/ UpstreamSettles

SpecRoutes == InitRoutes /\ [][NextRoutes]_vars

\* A request has been answered and `routeResponse` is its answer.
Answered == routePc = "idle" /\ served > 0

\* The body is an object that lacks prompt or the second field.
LacksField == body.kind = "object" /\ (~body.prompt \/ ~body.second)

\* C30: the routes validate before they call upstream: a Gemini request
\* without prompt or apiKey, and a GetImg request without prompt or model,
\* is answered 400 and no fetch is made; a GetImg request on a server
\* without API key is answered 500 and no fetch is made; an upstream
\* response that is not OK is answered with the upstream status and never
\* as a success with imageData.
C30_ValidatedBeforeUpstream ==
    Answered =>
        /\ (route = "gemini" /\ LacksField) =>
              (routeResponse.status = 400 /\ ~fetched)
        /\ (route = "getimg" /\ keyConfigured /\ LacksField) =>
              (routeResponse.status = 400 /\ ~fetched)
        /\ (route = "getimg" /\ ~keyConfigured) =>
              (routeResponse.status = 500 /\ ~fetched)
        /\ (fetched /\ upstreamAnswer.kind = "response" /\ ~Ok(upstreamAnswer.status)) =>
              /\ routeResponse.status = upstreamAnswer.status
              /\ ~routeResponse.imageData

=============================================================================
